---------------------------- MODULE Spec2Model ----------------------------
(***************************************************************************)
(* Agent orchestration framework of see-tran: the AgencyAgent pipeline     *)
(* (app/agents/agency_agent.py) on top of BaseAgent (app/agents/base.py),  *)
(* the tool registry (app/agents/tools/__init__.py) and the provider       *)
(* factory (app/agents/providers/__init__.py).                             *)
(*                                                                         *)
(* agency_agent is one module-level AgencyAgent object; every request      *)
(* thread calls execute on it.  A run is one call of execute.  The steps   *)
(* of a run are the places where execute touches state that outlives the   *)
(* call frame (self._logs, self._provider, self._model, the registry, the  *)
(* audit file) or waits for a provider or a tool; purely local code is     *)
(* folded into the step that follows it.                                   *)
(***************************************************************************)
EXTENDS Integers, Sequences, FiniteSets, TLC

(***************************************************************************)
(* Bounds of the model.                                                    *)
(***************************************************************************)
MaxPreemptions == 1
MaxDiffKeys == 2
MaxRegistryOps == 3
MaxTokens == 5
MaxStructuredTokens == 6
ProseWidth == 600

\* two request threads calling agency_agent.execute
Runs == {1, 2}

(***************************************************************************)
(* Python values.  None and True are distinguished values next to the      *)
(* strings a JSON document or a database column can hold.                  *)
(***************************************************************************)
None == "<None>"
PyTrue == "<True>"

EmptyDict == [k \in {} |-> None]

\* dict.get(key): the value, None for an absent key
Get(d, k) == IF k \in DOMAIN d THEN d[k] ELSE None

\* d[key] = value
Put(d, k, v) == [x \in (DOMAIN d) \cup {k} |-> IF x = k THEN v ELSE d[x]]

\* Python truthiness of a str-or-None value
Truthy(v) == v # None /\ v # ""

\* A message (str | None): None is NoText, a string is the sequence of the
\* parts it was formatted from
NoText == <<>>
Text(s) == <<s>>
Prefixed(prefix, text) == <<prefix>> \o text
StartsWith(text, prefix) == Len(text) >= 1 /\ text[1] = prefix

\* Optional values (x | None) whose present form is not a string
Nothing == [is_none |-> TRUE, value |-> EmptyDict]
Some(v) == [is_none |-> FALSE, value |-> v]

(***************************************************************************)
(* str.strip() on a name given as a sequence of characters.                *)
(***************************************************************************)
RECURSIVE LStrip(_)
LStrip(s) == IF s # <<>> /\ Head(s) = " " THEN LStrip(Tail(s)) ELSE s

RECURSIVE RStrip(_)
RStrip(s) ==
    IF s # <<>> /\ s[Len(s)] = " " THEN RStrip(SubSeq(s, 1, Len(s) - 1)) ELSE s

Strip(s) == RStrip(LStrip(s))

\* the names a caller passes: empty, blank, and names with text
NameStrings == {<<>>, <<" ", " ">>, <<" ", "T", " ">>}

\* input_data: a dict that may or may not have the key 'name'
InputDatas == {EmptyDict} \cup {[k \in {"name"} |-> s] : s \in NameStrings}

(***************************************************************************)
(* AGENCY_SCHEMA and the Agency record.                                    *)
(***************************************************************************)
AGENCY_SCHEMA ==
    {"name", "short_name", "location", "description", "website", "ceo",
     "address_hq", "phone_number", "contact_email", "transit_map_link",
     "email_domain"}

\* the Agency rows a run can be given as existing_record
AgencyRow(name, website, ceo) ==
    [f \in AGENCY_SCHEMA |->
        CASE f = "name" -> name
          [] f = "website" -> website
          [] f = "ceo" -> ceo
          [] OTHER -> None]

ExistingRecords == {Nothing, Some(AgencyRow("A", "w", "c"))}

\* _record_to_dict
_record_to_dict(record) == [f \in AGENCY_SCHEMA |-> record[f]]

(***************************************************************************)
(* _compute_diff                                                           *)
(***************************************************************************)
\* mutant: the test 'new_val is not None' is missing
_compute_diff_no_none_test(existing, proposed) ==
    LET all_keys == (DOMAIN existing) \cup (DOMAIN proposed)
        changed == {key \in all_keys :
                       Get(existing, key) # Get(proposed, key)}
    IN  [key \in changed |->
            [old |-> Get(existing, key), new |-> Get(proposed, key)]]

_compute_diff(existing, proposed) ==
    LET all_keys == (DOMAIN existing) \cup (DOMAIN proposed)
        changed == {key \in all_keys :
                       /\ Get(existing, key) # Get(proposed, key)
                       /\ Get(proposed, key) # None}
    IN  [key \in changed |->
            [old |-> Get(existing, key), new |-> Get(proposed, key)]]

(***************************************************************************)
(* Completion text as a sequence of tokens, and json.loads on it.          *)
(***************************************************************************)
Tok(t) == [t |-> t, k |-> "", v |-> ""]
KV(k, v) == [t |-> "kv", k |-> k, v |-> v]

LB == Tok("{")
RB == Tok("}")
FENCE == Tok("fence")
JSONTAG == Tok("json")
WS == Tok(" ")
NL == Tok("nl")
PROSE == Tok("prose")
LIST == Tok("[]")

\* the characters str.strip() removes
IsSpace(tok) == tok \in {WS, NL}

RECURSIVE LStripTok(_)
LStripTok(s) ==
    IF s # <<>> /\ IsSpace(Head(s)) THEN LStripTok(Tail(s)) ELSE s

RECURSIVE RStripTok(_)
RStripTok(s) ==
    IF s # <<>> /\ IsSpace(s[Len(s)])
    THEN RStripTok(SubSeq(s, 1, Len(s) - 1)) ELSE s

StripTok(s) == RStripTok(LStripTok(s))

\* the text is one JSON object: { members }
IsJsonObject(s) ==
    /\ Len(s) >= 2
    /\ s[1] = LB
    /\ s[Len(s)] = RB
    /\ \A i \in 2..(Len(s) - 1) : s[i].t = "kv" \/ IsSpace(s[i])

\* the text is a JSON document that is not an object
IsJsonOther(s) == s = <<LIST>>

JsonValid(s) == IsJsonObject(StripTok(s)) \/ IsJsonOther(StripTok(s))

\* the dict of a JSON object: the last member of a name wins
JsonDict(s) ==
    LET idx == {i \in 1..Len(s) : s[i].t = "kv"}
        keys == {s[i].k : i \in idx}
        last(k) == CHOOSE i \in idx :
                      s[i].k = k /\ \A j \in idx : s[j].k = k => j <= i
    IN  [k \in keys |-> s[last(k)].v]

\* json.loads of a valid text: a dict, or a value that is not a dict
NotADict == [k \in {"<list>"} |-> None]
JsonLoads(s) == IF IsJsonObject(StripTok(s)) THEN JsonDict(s) ELSE NotADict

First(s, tok) ==
    IF \E i \in 1..Len(s) : s[i] = tok
    THEN CHOOSE i \in 1..Len(s) : s[i] = tok /\ \A j \in 1..(i - 1) : s[j] # tok
    ELSE 0

Last(s, tok) ==
    IF \E i \in 1..Len(s) : s[i] = tok
    THEN CHOOSE i \in 1..Len(s) :
            s[i] = tok /\ \A j \in (i + 1)..Len(s) : s[j] # tok
    ELSE 0

\* re.search of a fence, an optional json tag, whitespace, the shortest body
\* and a closing fence: group 1 stripped, or no match
FenceMatch(content) ==
    LET open == First(content, FENCE)
        rest == SubSeq(content, open + 1, Len(content))
        body == IF rest # <<>> /\ Head(rest) = JSONTAG THEN Tail(rest) ELSE rest
        close == First(body, FENCE)
    IN  IF open = 0 \/ close = 0
        THEN [matched |-> FALSE, group |-> <<>>]
        ELSE [matched |-> TRUE,
              group |-> StripTok(SubSeq(body, 1, close - 1))]

\* the characters a token stands for: a stretch of prose is long
Width(tok) == IF tok = PROSE THEN ProseWidth ELSE 1

RECURSIVE CharLen(_)
CharLen(s) == IF s = <<>> THEN 0 ELSE Width(Head(s)) + CharLen(Tail(s))

\* the slice [:500] of agency_agent.py lines 249 and 254
RAW_LIMIT == 500

\* text[:RAW_LIMIT]: the tokens that fit whole, and how many characters the
\* slice has
Excerpt(text) ==
    LET fits == {n \in 0..Len(text) : CharLen(SubSeq(text, 1, n)) <= RAW_LIMIT}
        whole == CHOOSE n \in fits : \A k \in fits : k <= n
    IN  [whole |-> SubSeq(text, 1, whole),
         chars |-> IF CharLen(text) <= RAW_LIMIT THEN CharLen(text)
                                                 ELSE RAW_LIMIT]

\* lines 247-250 and 252-255
ParseErrorSentinel(msg, raw) ==
    [k \in {"_parse_error", "_raw_content"} |->
        IF k = "_parse_error" THEN msg ELSE Excerpt(raw)]

\* mutant: the fenced block is not looked at
_extract_json_from_response_no_fence(raw) ==
    LET content == StripTok(raw)
        start == First(content, LB)
        end == Last(content, RB)
    IN  IF JsonValid(content) THEN JsonLoads(content)
        ELSE IF start # 0 /\ end # 0 /\ end > start
             THEN IF JsonValid(SubSeq(content, start, end))
                  THEN JsonLoads(SubSeq(content, start, end))
                  ELSE ParseErrorSentinel(
                           "Found JSON-like content but failed to parse",
                           SubSeq(content, start, end))
        ELSE ParseErrorSentinel("Could not find valid JSON in response",
                                content)

_extract_json_from_response(raw) ==
    LET content == StripTok(raw)
        m == FenceMatch(content)
        start == First(content, LB)
        end == Last(content, RB)
    IN  IF JsonValid(content) THEN JsonLoads(content)
        ELSE IF m.matched /\ JsonValid(m.group) THEN JsonLoads(m.group)
        ELSE IF start # 0 /\ end # 0 /\ end > start
             THEN IF JsonValid(SubSeq(content, start, end))
                  THEN JsonLoads(SubSeq(content, start, end))
                  ELSE ParseErrorSentinel(
                           "Found JSON-like content but failed to parse",
                           SubSeq(content, start, end))
        ELSE ParseErrorSentinel("Could not find valid JSON in response",
                                content)

(***************************************************************************)
(* Process configuration: AGENT_PROVIDERS['agency'] and the credential of  *)
(* the provider it names (current_app.config).                             *)
(***************************************************************************)
Configs ==
    {[provider |-> "anthropic", model |-> "claude", api_key |-> TRUE],
     [provider |-> "anthropic", model |-> "claude", api_key |-> FALSE],
     [provider |-> "openai", model |-> "gpt", api_key |-> FALSE],
     [provider |-> "mistral", model |-> "m", api_key |-> TRUE]}

\* mutant: the credential is not looked at when the provider is built
get_provider_unchecked_key(cfg) ==
    IF cfg.provider \in {"anthropic", "openai"}
    THEN [raised |-> FALSE, provider |-> cfg.provider, error |-> NoText]
    ELSE [raised |-> TRUE, provider |-> None,
          error |-> Prefixed("Unknown provider: ", Text(cfg.provider))]

\* get_provider: the provider object, or the ValueError it raises
get_provider(cfg) ==
    IF cfg.provider = "anthropic"
    THEN IF cfg.api_key
         THEN [raised |-> FALSE, provider |-> "anthropic", error |-> NoText]
         ELSE [raised |-> TRUE, provider |-> None,
               error |-> Text("Anthropic API key is required")]
    ELSE IF cfg.provider = "openai"
    THEN IF cfg.api_key
         THEN [raised |-> FALSE, provider |-> "openai", error |-> NoText]
         ELSE [raised |-> TRUE, provider |-> None,
               error |-> Text("OpenAI API key is required")]
    ELSE [raised |-> TRUE, provider |-> None,
          error |-> Prefixed("Unknown provider: ", Text(cfg.provider))]

(***************************************************************************)
(* What the outside world can answer.                                      *)
(***************************************************************************)
\* research completions: empty text, or findings
ResearchContents == {"", "findings"}

\* extraction completions
ExtractionContents ==
    {<<LB, KV("name", "A"), RB>>,
     <<FENCE, JSONTAG, WS, LB, KV("name", "A"), KV("website", "w"), RB, FENCE>>,
     <<PROSE, LB, KV("name", "A"), KV("website", ""), KV("ceo", ""), RB, PROSE>>,
     <<PROSE>>,
     <<LB, PROSE, RB>>,
     <<LIST>>}

\* str(e) of the exceptions a run can meet
ProviderError == Text("provider error")
ToolError == Text("tool error")
AuditError == Text("audit error")
AttributeError == Text("'list' object has no attribute 'get'")

\* ToolResult
ToolResult(success, filepath, error) ==
    [success |-> success, filepath |-> filepath, error |-> error]

\* what ImageFetchTool.execute returns for an image class
ImageToolResults(image_type) ==
    {ToolResult(TRUE, image_type, NoText),
     ToolResult(FALSE, None, Text("cannot identify image file"))}

\* LogEntry; run is the call of execute that appended it
LogEntry(r, event_type, tag, msg) ==
    [run |-> r, event_type |-> event_type, tag |-> tag, msg |-> msg]

\* AgentResult
AgentResult(success, draft, skipped_fields, diff, logs, cfg, is_update, error) ==
    [success |-> success, draft |-> draft, skipped_fields |-> skipped_fields,
     diff |-> diff, logs |-> logs, provider_used |-> cfg.provider,
     model_used |-> cfg.model, is_update |-> is_update, error |-> error]

(***************************************************************************)
(* State.                                                                  *)
(***************************************************************************)
VARIABLES
    _logs,          \* agency_agent._logs
    _provider,      \* agency_agent._provider
    _model,         \* agency_agent._model
    _tools,         \* _registry._tools
    config,         \* current_app.config
    audit_log,      \* logs/agent_audit.jsonl
    frame,          \* the locals of each call of execute
    results,        \* what each call of execute returned
    appended,       \* history: the entries each run appended, in order
    calls,          \* history: the provider calls each run issued
    tool_calls,     \* history: the tool invocations each run made
    running,        \* the request thread that ran last (0: none yet)
    preemptions,    \* how often a thread was switched out before it returned
    diff_existing,  \* _compute_diff: its arguments and what it returned
    diff_proposed,
    diff_out,
    AGENT_CONFIDENCE_THRESHOLD,  \* current_app.config, in thousandths
    filter_data,    \* _filter_by_confidence: its arguments and what it returned
    filter_confidences,
    filter_out,
    agencies,       \* the rows of the Agency table, by id
    commit_out,     \* the response of commit_agency_agent
    registry_ops,   \* history: the registry operations and what they returned
    extract_content,  \* _extract_json_from_response: argument and result
    extract_out,
    structured_provider,  \* complete_structured: backend, completion, result
    structured_content,
    structured_out,
    image_params,   \* ImageFetchTool.execute: params, the site, the result
    image_site,
    image_out,
    apply_agency,   \* _apply_draft_to_agency: the row, the draft, the row after
    apply_draft,
    apply_out,
    session,        \* flask.session of one browser
    auth_log        \* history: the login and callback requests, in order

agent == <<_logs, _provider, _model>>
history == <<appended, calls, tool_calls>>
threads == <<running, preemptions>>
diff_vars == <<diff_existing, diff_proposed, diff_out>>
filter_vars == <<AGENT_CONFIDENCE_THRESHOLD, filter_data, filter_confidences,
                 filter_out>>
admin_vars == <<agencies, commit_out>>
extract_vars == <<extract_content, extract_out>>
structured_vars == <<structured_provider, structured_content, structured_out>>
image_vars == <<image_params, image_site, image_out>>
provider_tool_vars == <<structured_vars, image_vars>>
apply_vars == <<apply_agency, apply_draft, apply_out>>
auth_vars == <<session, auth_log>>
route_vars == <<apply_vars, auth_vars>>
other_vars == <<diff_vars, filter_vars, admin_vars, registry_ops, extract_vars,
                provider_tool_vars, route_vars>>
vars == <<_logs, _provider, _model, _tools, config, audit_log, frame, results,
          appended, calls, tool_calls, running, preemptions, diff_existing,
          diff_proposed, diff_out, AGENT_CONFIDENCE_THRESHOLD, filter_data,
          filter_confidences, filter_out, agencies, commit_out, registry_ops,
          extract_content, extract_out, structured_provider,
          structured_content, structured_out, image_params, image_site,
          image_out, apply_agency, apply_draft, apply_out, session, auth_log>>

NewFrame ==
    [pc |-> "idle", input_data |-> EmptyDict, existing_record |-> Nothing,
     use_search |-> FALSE, provider |-> None, model |-> None,
     research_findings |-> "", draft |-> EmptyDict, diff |-> Nothing,
     is_update |-> FALSE, exc |-> NoText, result |-> Nothing]

PipelineInit ==
    /\ _logs = <<>>
    /\ _provider = None
    /\ _model = None
    /\ _tools \in {EmptyDict, [n \in {"image_fetch"} |-> "ImageFetchTool"]}
    /\ config \in Configs
    /\ audit_log = <<>>
    /\ frame = [r \in Runs |-> NewFrame]
    /\ results = [r \in Runs |-> Nothing]
    /\ appended = [r \in Runs |-> <<>>]
    /\ calls = [r \in Runs |-> <<>>]
    /\ tool_calls = [r \in Runs |-> <<>>]
    /\ running = 0
    /\ preemptions = 0

DiffIdle ==
    /\ diff_existing = EmptyDict
    /\ diff_proposed = EmptyDict
    /\ diff_out = Nothing

\* AGENT_CONFIDENCE_THRESHOLD when the configuration does not set it: 0.7
DEFAULT_CONFIDENCE_THRESHOLD == 700

FilterIdle ==
    /\ AGENT_CONFIDENCE_THRESHOLD = DEFAULT_CONFIDENCE_THRESHOLD
    /\ filter_data = EmptyDict
    /\ filter_confidences = EmptyDict
    /\ filter_out = Nothing

\* the Agency table holds the row a run can be given as existing_record
AdminIdle ==
    /\ agencies = <<AgencyRow("A", "w", "c")>>
    /\ commit_out = Nothing

RegistryIdle == registry_ops = <<>>

ExtractIdle ==
    /\ extract_content = <<>>
    /\ extract_out = Nothing

StructuredIdle ==
    /\ structured_provider = "anthropic"
    /\ structured_content = <<>>
    /\ structured_out = Nothing

ImageIdle ==
    /\ image_params = EmptyDict
    /\ image_site = EmptyDict
    /\ image_out = Nothing

ProviderToolIdle == StructuredIdle /\ ImageIdle

ApplyIdle ==
    /\ apply_agency = EmptyDict
    /\ apply_draft = EmptyDict
    /\ apply_out = Nothing

\* no request of the browser yet: an empty session
AuthIdle ==
    /\ session = EmptyDict
    /\ auth_log = <<>>

RouteIdle == ApplyIdle /\ AuthIdle

Init ==
    PipelineInit /\ DiffIdle /\ FilterIdle /\ AdminIdle /\ RegistryIdle /\ RouteIdle
        /\ ExtractIdle /\ ProviderToolIdle

(***************************************************************************)
(* BaseAgent helpers.                                                      *)
(***************************************************************************)
\* _log: self._logs.append(entry)
_log(r, event_type, tag, msg) ==
    /\ _logs' = Append(_logs, LogEntry(r, event_type, tag, msg))
    /\ appended' = [appended EXCEPT
                       ![r] = Append(@, LogEntry(r, event_type, tag, msg))]

\* _create_result: logs=self._logs.copy(), provider and model from the config
_create_result(success, draft, skipped_fields, diff, is_update, error) ==
    AgentResult(success, draft, skipped_fields, diff, _logs, config,
                is_update, error)

\* return value: the call of execute by run r is over
Return(r, res) ==
    /\ frame' = [frame EXCEPT ![r].pc = "returned"]
    /\ results' = [results EXCEPT ![r] = Some(res)]

\* mutant: the exception leaves execute, no handler runs
Raise_escaping(r, msg) ==
    frame' = [frame EXCEPT ![r].pc = "raised", ![r].exc = msg]

\* an exception propagates to the handler of execute (line 161)
Raise(r, msg) ==
    frame' = [frame EXCEPT ![r].pc = "except", ![r].exc = msg]


\* The request threads share agency_agent (admin.py line 67); the thread to
\* take the next step is any of them, with at most MaxPreemptions switches
\* away from a call of execute that has begun and not returned.
Schedule(r) ==
    /\ running' = r
    /\ IF running \notin {0, r} /\ frame[running].pc \notin {"idle", "returned"}
       THEN /\ preemptions < MaxPreemptions
            /\ preemptions' = preemptions + 1
       ELSE UNCHANGED preemptions

(***************************************************************************)
(* AgencyAgent.execute, step by step.                                      *)
(***************************************************************************)
\* mutant: the log list of the call before is kept
execute_reset_keeping_logs(r) ==
    /\ frame[r].pc = "idle"
    /\ Schedule(r)
    /\ \E input_data \in InputDatas, existing_record \in ExistingRecords :
          frame' = [frame EXCEPT ![r].pc = "validate",
                                 ![r].input_data = input_data,
                                 ![r].existing_record = existing_record]
    /\ UNCHANGED <<agent, _tools, config, audit_log, results, history,
                   other_vars>>

\* line 98: a call of execute begins; self._logs = []
execute_reset(r) ==
    /\ frame[r].pc = "idle"
    /\ Schedule(r)
    /\ \E input_data \in InputDatas, existing_record \in ExistingRecords :
          frame' = [frame EXCEPT ![r].pc = "validate",
                                 ![r].input_data = input_data,
                                 ![r].existing_record = existing_record]
    /\ _logs' = <<>>
    /\ UNCHANGED <<_provider, _model, _tools, config, audit_log, results,
                   history, other_vars>>

\* input_data.get('name', '').strip()
agency_name(input_data) ==
    Strip(IF "name" \in DOMAIN input_data THEN input_data["name"] ELSE <<>>)

\* lines 100-107: validation, then the 'start' entry
execute_validate(r) ==
    /\ frame[r].pc = "validate"
    /\ Schedule(r)
    /\ IF agency_name(frame[r].input_data) = <<>>
       THEN /\ Return(r, _create_result(FALSE, EmptyDict, EmptyDict, Nothing,
                                        FALSE, Text("Agency name is required")))
            /\ UNCHANGED <<_logs, appended>>
       ELSE /\ _log(r, "decision", "start", NoText)
            /\ frame' = [frame EXCEPT ![r].pc = "research_start"]
            /\ UNCHANGED results
    /\ UNCHANGED <<_provider, _model, _tools, config, audit_log, calls,
                   tool_calls, other_vars>>

\* line 181
_research_agency_start(r) ==
    /\ frame[r].pc = "research_start"
    /\ Schedule(r)
    /\ _log(r, "decision", "research_start", NoText)
    /\ frame' = [frame EXCEPT ![r].pc = "get_provider",
                              ![r].use_search = TRUE]
    /\ UNCHANGED <<_provider, _model, _tools, config, audit_log, results,
                   calls, tool_calls, other_vars>>

\* base.py lines 93-96: the provider is built on first use
_get_provider(r) ==
    /\ frame[r].pc = "get_provider"
    /\ Schedule(r)
    /\ IF _provider = None
       THEN IF get_provider(config).raised
            THEN /\ Raise(r, get_provider(config).error)
                 /\ UNCHANGED _provider
            ELSE /\ _provider' = get_provider(config).provider
                 /\ frame' = [frame EXCEPT ![r].pc = "store_model"]
       ELSE /\ frame' = [frame EXCEPT ![r].pc = "issue",
                                      ![r].provider = _provider]
            /\ UNCHANGED _provider
    /\ UNCHANGED <<_logs, _model, _tools, config, audit_log, results,
                   history, other_vars>>

\* base.py lines 97-98
_get_provider_store_model(r) ==
    /\ frame[r].pc = "store_model"
    /\ Schedule(r)
    /\ _model' = config.model
    /\ frame' = [frame EXCEPT ![r].pc = "issue", ![r].provider = _provider]
    /\ UNCHANGED <<_logs, _provider, _tools, config, audit_log, results,
                   history, other_vars>>

\* base.py lines 121-124: the request leaves with self._model as it is now
_call_llm_issue(r) ==
    /\ frame[r].pc = "issue"
    /\ Schedule(r)
    /\ frame' = [frame EXCEPT ![r].pc = "await", ![r].model = _model]
    /\ calls' = [calls EXCEPT
                    ![r] = Append(@, [use_search |-> frame[r].use_search,
                                      provider |-> frame[r].provider,
                                      model |-> _model])]
    /\ UNCHANGED <<agent, _tools, config, audit_log, results, appended,
                   tool_calls, other_vars>>

llm_call_tag(use_search) == IF use_search THEN "use_search=True"
                                          ELSE "use_search=False"

\* where execute goes with the parsed extraction (lines 122-138)
after_extraction(draft, existing_record) ==
    IF draft = NotADict THEN "except"
    ELSE IF "_parse_error" \in DOMAIN draft THEN "log_parse_error"
    ELSE IF Truthy(Get(draft, "website")) THEN "fetch_logo"
    ELSE IF existing_record.is_none THEN "create_result"
    ELSE "diff"

\* mutant: only the search call is logged
_call_llm_log_search_only(r) ==
    IF frame[r].use_search
    THEN _log(r, "llm_call", llm_call_tag(frame[r].use_search), NoText)
    ELSE UNCHANGED <<_logs, appended>>

\* base.py lines 128-135: the llm_call entry of a call that returned
_call_llm_log(r) ==
    _log(r, "llm_call", llm_call_tag(frame[r].use_search), NoText)

\* base.py lines 126-137: the provider answers; one llm_call entry
_call_llm_return(r) ==
    /\ frame[r].pc = "await"
    /\ Schedule(r)
    /\ _call_llm_log(r)
    /\ IF frame[r].use_search
       THEN \E content \in ResearchContents :
               frame' = [frame EXCEPT ![r].pc = "research_complete",
                                      ![r].research_findings = content]
       ELSE \E content \in ExtractionContents :
               LET draft == _extract_json_from_response(content)
                   next == after_extraction(draft, frame[r].existing_record)
               IN  frame' = [frame EXCEPT
                                ![r].pc = next,
                                ![r].draft = draft,
                                ![r].exc = IF next = "except"
                                           THEN AttributeError ELSE NoText]
    /\ UNCHANGED <<_provider, _model, _tools, config, audit_log, results,
                   calls, tool_calls, other_vars>>

\* base.py lines 139-141: the provider call raises; an error entry, re-raised
_call_llm_fault(r) ==
    /\ frame[r].pc = "await"
    /\ Schedule(r)
    /\ _log(r, "error", "llm_call", ProviderError)
    /\ Raise(r, ProviderError)
    /\ UNCHANGED <<_provider, _model, _tools, config, audit_log, results,
                   calls, tool_calls, other_vars>>

\* lines 185-190, 113
_research_agency_complete(r) ==
    /\ frame[r].pc = "research_complete"
    /\ Schedule(r)
    /\ _log(r, "decision", "research_complete", NoText)
    /\ frame' = [frame EXCEPT
                    ![r].pc = IF frame[r].research_findings = ""
                              THEN "no_findings" ELSE "extraction_start"]
    /\ UNCHANGED <<_provider, _model, _tools, config, audit_log, results,
                   calls, tool_calls, other_vars>>

\* lines 114-117
execute_no_findings(r) ==
    /\ frame[r].pc = "no_findings"
    /\ Schedule(r)
    /\ Return(r, _create_result(FALSE, EmptyDict, EmptyDict, Nothing, FALSE,
                                Text("Research step returned no findings")))
    /\ UNCHANGED <<agent, _tools, config, audit_log, history, other_vars>>

\* line 206
_extract_structured_data_start(r) ==
    /\ frame[r].pc = "extraction_start"
    /\ Schedule(r)
    /\ _log(r, "decision", "extraction_start", NoText)
    /\ frame' = [frame EXCEPT ![r].pc = "get_provider",
                              ![r].use_search = FALSE]
    /\ UNCHANGED <<_provider, _model, _tools, config, audit_log, results,
                   calls, tool_calls, other_vars>>

\* lines 123-126
execute_log_parse_error(r) ==
    /\ frame[r].pc = "log_parse_error"
    /\ Schedule(r)
    /\ _log(r, "error", "extraction", Text(frame[r].draft["_parse_error"]))
    /\ frame' = [frame EXCEPT ![r].pc = "parse_failed"]
    /\ UNCHANGED <<_provider, _model, _tools, config, audit_log, results,
                   calls, tool_calls, other_vars>>

\* mutant: the sentinel is handed back as the draft
parse_error_result_with_draft(draft) ==
    _create_result(FALSE, draft, EmptyDict, Nothing, FALSE,
                   Prefixed("Failed to parse response: ",
                            Text(draft["_parse_error"])))

\* lines 127-130: the result of a run whose extraction did not parse
parse_error_result(draft) ==
    _create_result(FALSE, EmptyDict, EmptyDict, Nothing, FALSE,
                   Prefixed("Failed to parse response: ",
                            Text(draft["_parse_error"])))

\* lines 127-130
execute_parse_failed(r) ==
    /\ frame[r].pc = "parse_failed"
    /\ Schedule(r)
    /\ Return(r, parse_error_result(frame[r].draft))
    /\ UNCHANGED <<agent, _tools, config, audit_log, history, other_vars>>


\* mutant: the error does not name the tool
ToolNotFound_unnamed(name) ==
    ToolResult(FALSE, None, Text("Tool not found"))

\* ToolRegistry.execute (tools/__init__.py lines 58-66) for a missing name
ToolNotFound(name) ==
    ToolResult(FALSE, None, Prefixed("Tool not found: ", Text(name)))

\* lines 271-273 and 284-286: the marker fields of a successful fetch
with_markers(draft, image_type, res) ==
    IF res.success
    THEN Put(Put(draft, IF image_type = "logo" THEN "_logo_fetched"
                                               ELSE "_header_fetched", PyTrue),
             IF image_type = "logo" THEN "_logo_path" ELSE "_header_path",
             res.filepath)
    ELSE draft

\* mutant: the diff stage is skipped after an image fetch
after_images_never_diff(existing_record) == "create_result"

\* where execute goes after the image fetch (lines 137-140)
after_images(existing_record) ==
    IF existing_record.is_none THEN "create_result" ELSE "diff"

\* base.py lines 172-196 (_call_tool) for one image class, and what
\* _fetch_agency_images does with the result
_call_tool(r, image_type, next) ==
    \/ \* the registry has no such tool: a ToolResult, no tool is run
       /\ "image_fetch" \notin DOMAIN _tools
       /\ _log(r, "tool_call", image_type, ToolNotFound("image_fetch").error)
       /\ tool_calls' = [tool_calls EXCEPT
                            ![r] = Append(@, [image_type |-> image_type,
                                              ran |-> FALSE,
                                              raised |-> FALSE,
                                              success |-> FALSE])]
       /\ frame' = [frame EXCEPT ![r].pc = next]
    \/ \* the tool returns a ToolResult
       /\ "image_fetch" \in DOMAIN _tools
       /\ \E res \in ImageToolResults(image_type) :
             /\ _log(r, "tool_call", image_type, res.error)
             /\ frame' = [frame EXCEPT
                             ![r].pc = next,
                             ![r].draft = with_markers(@, image_type, res)]
             /\ tool_calls' = [tool_calls EXCEPT
                                  ![r] = Append(@, [image_type |-> image_type,
                                                    ran |-> TRUE,
                                                    raised |-> FALSE,
                                                    success |-> res.success])]
    \/ \* the tool raises (image_fetch.py line 85 is outside any try)
       /\ "image_fetch" \in DOMAIN _tools
       /\ Raise(r, ToolError)
       /\ tool_calls' = [tool_calls EXCEPT
                            ![r] = Append(@, [image_type |-> image_type,
                                              ran |-> TRUE,
                                              raised |-> TRUE,
                                              success |-> FALSE])]
       /\ UNCHANGED <<_logs, appended>>

\* lines 263-273
_fetch_agency_images_logo(r) ==
    /\ frame[r].pc = "fetch_logo"
    /\ Schedule(r)
    /\ _call_tool(r, "logo", "fetch_header")
    /\ UNCHANGED <<_provider, _model, _tools, config, audit_log, results,
                   calls, other_vars>>

\* lines 276-286
_fetch_agency_images_header(r) ==
    /\ frame[r].pc = "fetch_header"
    /\ Schedule(r)
    /\ _call_tool(r, "header", after_images(frame[r].existing_record))
    /\ UNCHANGED <<_provider, _model, _tools, config, audit_log, results,
                   calls, other_vars>>

\* mutant: the diff is computed, is_update stays False
execute_diff_not_update(r) ==
    /\ frame[r].pc = "diff"
    /\ Schedule(r)
    /\ frame' = [frame EXCEPT
           ![r].pc = "create_result",
           ![r].diff = Some(_compute_diff(
                           _record_to_dict(frame[r].existing_record.value),
                           frame[r].draft))]
    /\ _log(r, "decision", "computed_diff", NoText)
    /\ UNCHANGED <<_provider, _model, _tools, config, audit_log, results,
                   calls, tool_calls, other_vars>>

\* mutant: the diff is computed between the two tool calls
execute_diff_before_header(r) ==
    /\ frame[r].pc = "fetch_header"
    /\ frame[r].diff.is_none
    /\ ~frame[r].existing_record.is_none
    /\ Schedule(r)
    /\ frame' = [frame EXCEPT
           ![r].is_update = TRUE,
           ![r].diff = Some(_compute_diff(
                           _record_to_dict(frame[r].existing_record.value),
                           frame[r].draft))]
    /\ _log(r, "decision", "computed_diff", NoText)
    /\ UNCHANGED <<_provider, _model, _tools, config, audit_log, results,
                   calls, tool_calls, other_vars>>

\* lines 140-146: the diff of an update run, and its log entry
execute_diff(r) ==
    /\ frame[r].pc = "diff"
    /\ Schedule(r)
    /\ frame' = [frame EXCEPT
           ![r].pc = "create_result",
           ![r].is_update = TRUE,
           ![r].diff = Some(_compute_diff(
                           _record_to_dict(frame[r].existing_record.value),
                           frame[r].draft))]
    /\ _log(r, "decision", "computed_diff", NoText)
    /\ UNCHANGED <<_provider, _model, _tools, config, audit_log, results,
                   calls, tool_calls, other_vars>>

\* mutant: the draft of an update run is written to the record at once
execute_create_result_autocommit(r) ==
    /\ frame[r].pc = "create_result"
    /\ Schedule(r)
    /\ frame' = [frame EXCEPT
           ![r].pc = "audit",
           ![r].result = Some(_create_result(TRUE, frame[r].draft, EmptyDict,
                                             frame[r].diff, frame[r].is_update,
                                             NoText))]
    /\ agencies' = IF frame[r].existing_record.is_none \/ agencies = <<>>
                   THEN agencies
                   ELSE [agencies EXCEPT
                            ![1] = [f \in DOMAIN @ |->
                                      IF f \in DOMAIN frame[r].draft
                                      THEN frame[r].draft[f] ELSE @[f]]]
    /\ UNCHANGED <<agent, _tools, config, audit_log, results, history,
                   diff_vars, filter_vars, commit_out, registry_ops,
                   extract_vars, provider_tool_vars, route_vars>>

\* lines 148-154
execute_create_result(r) ==
    /\ frame[r].pc = "create_result"
    /\ Schedule(r)
    /\ frame' = [frame EXCEPT
           ![r].pc = "audit",
           ![r].result = Some(_create_result(TRUE, frame[r].draft, EmptyDict,
                                             frame[r].diff, frame[r].is_update,
                                             NoText))]
    /\ UNCHANGED <<agent, _tools, config, audit_log, results, history,
                   other_vars>>

\* the line _save_audit_log appends (base.py lines 252-267)
AuditEntry(r, result, input_data) ==
    [run |-> r, agent_type |-> "agency", input |-> input_data,
     success |-> result.success, is_update |-> result.is_update,
     fields_set |-> DOMAIN result.draft, error |-> result.error,
     provider |-> result.provider_used, model |-> result.model_used,
     log_count |-> Len(result.logs)]

\* mutant: the file is opened with 'w'
audit_write_truncating(file, entry) == <<entry>>

\* base.py lines 269-270: open(log_file, 'a') and one line written
audit_write(file, entry) == Append(file, entry)

\* line 157 and base.py lines 243-270: the record is appended, or the write
\* raises; line 159: the result is returned
_save_audit_log(r) ==
    /\ frame[r].pc = "audit"
    /\ Schedule(r)
    /\ \/ /\ audit_log' = audit_write(audit_log,
                 AuditEntry(r, frame[r].result.value, frame[r].input_data))
          /\ Return(r, frame[r].result.value)
       \/ /\ Raise(r, AuditError)
          /\ UNCHANGED <<audit_log, results>>
    /\ UNCHANGED <<agent, _tools, config, history, other_vars>>

\* lines 161-162
execute_except_log(r) ==
    /\ frame[r].pc = "except"
    /\ Schedule(r)
    /\ _log(r, "error", "execution", frame[r].exc)
    /\ frame' = [frame EXCEPT ![r].pc = "except_result"]
    /\ UNCHANGED <<_provider, _model, _tools, config, audit_log, results,
                   calls, tool_calls, other_vars>>

\* lines 163-166
execute_except_result(r) ==
    /\ frame[r].pc = "except_result"
    /\ Schedule(r)
    /\ Return(r, _create_result(FALSE, EmptyDict, EmptyDict, Nothing, FALSE,
                                frame[r].exc))
    /\ UNCHANGED <<agent, _tools, config, audit_log, history, other_vars>>

\* the steps of a call of execute after line 98
execute_steps(r) ==
    \/ execute_validate(r)
    \/ _research_agency_start(r)
    \/ _get_provider(r)
    \/ _get_provider_store_model(r)
    \/ _call_llm_issue(r)
    \/ _call_llm_return(r)
    \/ _call_llm_fault(r)
    \/ _research_agency_complete(r)
    \/ execute_no_findings(r)
    \/ _extract_structured_data_start(r)
    \/ execute_log_parse_error(r)
    \/ execute_parse_failed(r)
    \/ _fetch_agency_images_logo(r)
    \/ _fetch_agency_images_header(r)
    \/ execute_diff(r)
    \/ execute_create_result(r)
    \/ _save_audit_log(r)
    \/ execute_except_log(r)
    \/ execute_except_result(r)

execute(r) ==
    \/ execute_reset(r)
    \/ execute_steps(r)

Next == \E r \in Runs : execute(r)

Spec == Init /\ [][Next]_vars

\* the same calls made one after another: no thread is switched out
SeqNext == Next /\ preemptions' = preemptions

SeqSpec == Init /\ [][SeqNext]_vars

\* A request thread that can take a step of execute takes it: the threads are
\* scheduled by the operating system, and every call that waits is bounded by
\* a timeout (the provider and tool clients are built with timeout=120.0 and
\* 30.0) after which it returns or raises.
LiveSpec == Init /\ [][Next]_vars /\ \A r \in Runs : WF_vars(execute_steps(r))

\* what AGENT_PROVIDERS['agency'] can be changed to while the process runs
Reconfigurations ==
    {[provider |-> "openai", model |-> "gpt", api_key |-> TRUE],
     [provider |-> "anthropic", model |-> "claude-next", api_key |-> TRUE]}

\* base.py lines 83-89 read current_app.config at every call: between two
\* calls of execute the configuration is set to another provider or model
reconfigure ==
    /\ \A r \in Runs : frame[r].pc \in {"idle", "returned"}
    /\ \E r \in Runs : frame[r].pc = "returned"
    /\ \E r \in Runs : frame[r].pc = "idle"
    /\ \E cfg \in Reconfigurations \ {config} : config' = cfg
    /\ UNCHANGED <<agent, _tools, audit_log, frame, results, history, threads,
                   other_vars>>

\* calls made one after another, the configuration changing in between
ConfigNext == SeqNext \/ reconfigure

ConfigSpec == Init /\ [][ConfigNext]_vars

(***************************************************************************)
(* _compute_diff on its own: every pair of small mappings.                 *)
(***************************************************************************)
DiffKeyList == <<"name", "website", "_logo_fetched">>
DiffKeys == {DiffKeyList[i] : i \in 1..MaxDiffKeys}
DiffValues == {None, "", "a", "b"}
DiffDicts == UNION {[ks -> DiffValues] : ks \in SUBSET DiffKeys}

DiffInit ==
    /\ PipelineInit
    /\ diff_existing \in DiffDicts
    /\ diff_proposed \in DiffDicts
    /\ diff_out = Nothing
    /\ FilterIdle /\ AdminIdle /\ RegistryIdle /\ RouteIdle /\ ExtractIdle /\ ProviderToolIdle

compute_diff_call ==
    /\ diff_out.is_none
    /\ diff_out' = Some(_compute_diff(diff_existing, diff_proposed))
    /\ UNCHANGED <<agent, _tools, config, audit_log, frame, results, history,
                   threads, diff_existing, diff_proposed, filter_vars,
                   admin_vars, registry_ops, extract_vars, provider_tool_vars, route_vars>>

DiffNext == compute_diff_call

DiffSpec == DiffInit /\ [][DiffNext]_vars


(***************************************************************************)
(* _filter_by_confidence on its own.  Confidence figures and the threshold *)
(* are floats, held here in thousandths.                                   *)
(***************************************************************************)
\* confidences.get(key, 1.0)
FULL_CONFIDENCE == 1000

\* '{x:.2f}': the figure in hundredths, rounded to the nearest
Format2f(x) == (x + 5) \div 10

\* f'Below threshold ({conf:.2f} < {threshold:.2f})'
SkipReason(conf, threshold) ==
    <<"Below threshold (", Format2f(conf), " < ", Format2f(threshold), ")">>

\* mutant: the comparison is strict
_filter_by_confidence_strict(data, confidences, threshold) ==
    LET conf(key) == IF key \in DOMAIN confidences THEN confidences[key]
                                                   ELSE FULL_CONFIDENCE
        kept == {key \in DOMAIN data : conf(key) > threshold}
    IN  [kept |-> [key \in kept |-> data[key]],
         skipped |-> [key \in (DOMAIN data) \ kept |->
                         [value |-> data[key], confidence |-> conf(key),
                          reason |-> SkipReason(conf(key), threshold)]]]

\* base.py lines 205-218: (kept, skipped)
_filter_by_confidence(data, confidences, threshold) ==
    LET conf(key) == IF key \in DOMAIN confidences THEN confidences[key]
                                                   ELSE FULL_CONFIDENCE
        kept == {key \in DOMAIN data : conf(key) >= threshold}
    IN  [kept |-> [key \in kept |-> data[key]],
         skipped |-> [key \in (DOMAIN data) \ kept |->
                         [value |-> data[key], confidence |-> conf(key),
                          reason |-> SkipReason(conf(key), threshold)]]]

FilterKeys == {"name", "website"}
FilterDatas == UNION {[ks -> {"", "a"}] : ks \in SUBSET FilterKeys}

\* figures whose third decimal is not 5, so that '.2f' has one nearest value
ConfidenceFigures == {0, 500, 699, 700, 1000}
FilterConfidences ==
    UNION {[ks -> ConfidenceFigures] : ks \in SUBSET FilterKeys}

\* what AGENT_CONFIDENCE_THRESHOLD can be configured to
Thresholds == {0, 700, 1000, 1500}

FilterInit ==
    /\ PipelineInit /\ DiffIdle /\ AdminIdle /\ RegistryIdle /\ RouteIdle /\ ExtractIdle /\ ProviderToolIdle
    /\ AGENT_CONFIDENCE_THRESHOLD \in Thresholds
    /\ filter_data \in FilterDatas
    /\ filter_confidences \in FilterConfidences
    /\ filter_out = Nothing

\* a call of _filter_by_confidence: the threshold is read from the
\* configuration now (line 205); one 'decision' entry (lines 220-225)
filter_by_confidence_call ==
    /\ filter_out.is_none
    /\ filter_out' = Some(_filter_by_confidence(filter_data, filter_confidences,
                                                AGENT_CONFIDENCE_THRESHOLD))
    /\ _log(1, "decision", "confidence_filter", NoText)
    /\ UNCHANGED <<_provider, _model, _tools, config, audit_log, frame,
                   results, calls, tool_calls, threads, diff_vars,
                   AGENT_CONFIDENCE_THRESHOLD, filter_data, filter_confidences,
                   admin_vars, registry_ops, extract_vars, provider_tool_vars, route_vars>>

FilterNext == filter_by_confidence_call

FilterSpec == FilterInit /\ [][FilterNext]_vars

(***************************************************************************)
(* The admin routes (app/routes/admin.py): one request runs the agent, a   *)
(* later request commits the draft the reviewer was shown.                 *)
(***************************************************************************)
\* field_map: draft key -> model attribute
field_map == [k \in AGENCY_SCHEMA |-> k]

\* Agency(): a row with no column set
NewAgency == [f \in AGENCY_SCHEMA |-> None]

\* mutant: the empty string is stored as it is
ColumnValue_keeping_empty(value) == value

\* 'if value == "": value = None'
ColumnValue(value) == IF value = "" THEN None ELSE value

\* mutant: every key of the draft is set on the row
_apply_draft_to_agency_all_keys(agency, draft) ==
    [a \in (DOMAIN agency) \cup (DOMAIN draft) |->
        IF a \in DOMAIN draft THEN ColumnValue(draft[a]) ELSE agency[a]]

\* admin.py lines 137-160: setattr for the keys of field_map the draft has
_apply_draft_to_agency(agency, draft) ==
    LET set == {k \in DOMAIN field_map : k \in DOMAIN draft}
        key(a) == CHOOSE k \in set : field_map[k] = a
    IN  [a \in (DOMAIN agency) \cup {field_map[k] : k \in set} |->
            IF \E k \in set : field_map[k] = a
            THEN ColumnValue(draft[key(a)]) ELSE agency[a]]

\* str.lower on the names in use; ilike compares without case
Lower(name) == IF name = "A" THEN "a" ELSE name
ilike(column, pattern) == Lower(column) = Lower(pattern)

\* the agency_id values of a request body: none (0), or the id of a row
AgencyIds == {0, 1}

\* jsonify(...), status
Response(status, error, agency_id) ==
    [status |-> status, error |-> error, agency_id |-> agency_id]

AdminInit ==
    /\ PipelineInit /\ DiffIdle /\ FilterIdle /\ RegistryIdle /\ RouteIdle /\ ExtractIdle /\ ProviderToolIdle
    /\ agencies \in {<<>>, <<AgencyRow("A", "w", "c")>>}
    /\ commit_out = Nothing

\* admin.py lines 48-70 and agency_agent.py line 98: the request is checked,
\* the row is loaded, and execute begins
run_agency_agent(r) ==
    /\ frame[r].pc = "idle"
    /\ Schedule(r)
    /\ \E name \in NameStrings, agency_id \in AgencyIds :
          LET found == agency_id \in DOMAIN agencies
              existing_record == IF agency_id # 0 THEN Some(agencies[agency_id])
                                                 ELSE Nothing
              name_given == IF Strip(name) = <<>> /\ agency_id # 0
                            THEN <<agencies[agency_id].name>> ELSE Strip(name)
          IN  IF (agency_id # 0 /\ ~found) \/ name_given = <<>>
              THEN /\ frame' = [frame EXCEPT ![r].pc = "rejected"]
                   /\ UNCHANGED _logs
              ELSE /\ frame' = [frame EXCEPT
                          ![r].pc = "validate",
                          ![r].input_data = [k \in {"name"} |-> name_given],
                          ![r].existing_record = existing_record]
                   /\ _logs' = <<>>
    /\ UNCHANGED <<_provider, _model, _tools, config, audit_log, results,
                   history, other_vars>>

\* mutant: the session keeps what was applied before the fault
rollback_keeping(before, pending) == pending

\* db.session.rollback() (line 133): the rows as they were before the request
rollback(before, pending) == before

\* admin.py lines 87-134: the body of the commit request
commit(draft, agency_id) ==
    IF draft = EmptyDict
    THEN /\ commit_out' = Some(Response(400, Text("No draft data provided"), 0))
         /\ UNCHANGED agencies
    ELSE IF ~Truthy(Get(draft, "name"))
    THEN /\ commit_out' = Some(Response(400, Text("Agency name is required"), 0))
         /\ UNCHANGED agencies
    ELSE IF agency_id # 0
    THEN IF agency_id \notin DOMAIN agencies
         THEN /\ commit_out' = Some(Response(404, Text("Agency not found"), 0))
              /\ UNCHANGED agencies
         ELSE LET applied == [agencies EXCEPT ![agency_id] =
                                 _apply_draft_to_agency(@, draft)]
              IN  \/ /\ agencies' = applied
                     /\ commit_out' = Some(Response(200, NoText, agency_id))
                  \/ \* db.session.commit() raises: rollback
                     /\ agencies' = rollback(agencies, applied)
                     /\ commit_out' = Some(Response(500,
                                           Text("database error"), 0))
    ELSE IF \E id \in DOMAIN agencies : ilike(agencies[id].name, draft["name"])
         THEN /\ commit_out' = Some(Response(409, Text("already exists"), 0))
              /\ UNCHANGED agencies
         ELSE LET applied == Append(agencies,
                                 _apply_draft_to_agency(NewAgency, draft))
              IN  \/ /\ agencies' = applied
                     /\ commit_out' = Some(Response(200, NoText,
                                                    Len(agencies) + 1))
                  \/ /\ agencies' = rollback(agencies, applied)
                     /\ commit_out' = Some(Response(500,
                                           Text("database error"), 0))

\* admin.py lines 75-134: the draft of the run comes back with the agency_id
\* of its request
commit_agency_agent(r) ==
    /\ ~results[r].is_none
    /\ commit_out.is_none
    /\ commit(results[r].value.draft,
              IF frame[r].existing_record.is_none THEN 0 ELSE 1)
    /\ UNCHANGED <<agent, _tools, config, audit_log, frame, results, history,
                   threads, diff_vars, filter_vars, registry_ops, extract_vars,
                   provider_tool_vars, route_vars>>

AdminNext ==
    \/ run_agency_agent(1)
    \/ execute_steps(1)
    \/ commit_agency_agent(1)

AdminSpec == AdminInit /\ [][AdminNext]_vars

(***************************************************************************)
(* _apply_draft_to_agency on its own, and the commit request with any body. *)
(***************************************************************************)
\* the keys and values of the drafts: schema fields, an image marker; null,
\* the empty string, a text
ApplyKeys == {"name", "website", "ceo", "_logo_path"}
ApplyValues == {None, "", "A"}
ApplyDrafts == UNION {[ks -> ApplyValues] : ks \in SUBSET ApplyKeys}
ApplyAgencies == {NewAgency, AgencyRow("A", "w", "c")}

ApplyInit ==
    /\ PipelineInit /\ DiffIdle /\ FilterIdle /\ AdminIdle /\ RegistryIdle
    /\ ExtractIdle /\ ProviderToolIdle /\ AuthIdle
    /\ apply_agency \in ApplyAgencies
    /\ apply_draft \in ApplyDrafts
    /\ apply_out = Nothing

apply_draft_to_agency_call ==
    /\ apply_out.is_none
    /\ apply_out' = Some(_apply_draft_to_agency(apply_agency, apply_draft))
    /\ UNCHANGED <<agent, _tools, config, audit_log, frame, results, history,
                   threads, diff_vars, filter_vars, admin_vars, registry_ops,
                   extract_vars, provider_tool_vars, apply_agency, apply_draft,
                   auth_vars>>

ApplyNext == apply_draft_to_agency_call

ApplySpec == ApplyInit /\ [][ApplyNext]_vars

\* the agency_id values of a commit body: none, the id of a row, no row's id
CommitIds == {0, 1, 2}

\* admin.py lines 85-88: the body of the request is any draft and agency_id
commit_request ==
    /\ commit_out.is_none
    /\ \E draft \in ApplyDrafts, agency_id \in CommitIds :
          commit(draft, agency_id)
    /\ UNCHANGED <<agent, _tools, config, audit_log, frame, results, history,
                   threads, diff_vars, filter_vars, registry_ops, extract_vars,
                   provider_tool_vars, route_vars>>

CommitNext == commit_request

CommitSpec == AdminInit /\ [][CommitNext]_vars

(***************************************************************************)
(* The OAuth login flow (app/auth.py) of one browser: the login redirects  *)
(* and the callbacks, in any order and with any state parameter.  session  *)
(* is flask.session as the next request of the browser finds it; what a    *)
(* handler that raises had written to it is kept, as it is when the        *)
(* exception is answered with a 500 response.                              *)
(***************************************************************************)
MaxAuthOps == 4

\* secrets.token_urlsafe(16): the state and nonce values in use
StateTokens == {"s1", "s2"}
NonceTokens == {"n1"}

\* request.args.get('state'): absent, or any value
ReceivedStates == StateTokens \cup {None}

\* the email of the id token; current_app.config['SUPER_ADMIN_EMAIL'], the
\* domains of VerifiedAgencyDomain and Agency.email_domain, lines 247-259
SUPER_ADMIN_EMAIL == "boss@x.org"
VerifiedDomains == {"db.org"}
allowed_domains == {"c-tran.com", "trimet.org"}
Emails == {None, "nobody", "boss@x.org", "a@db.org", "a@c-tran.com",
           "a@other.org"}

\* lines 159-162
_email_domain(email) ==
    CASE email = "boss@x.org" -> "x.org"
      [] email = "a@db.org" -> "db.org"
      [] email = "a@c-tran.com" -> "c-tran.com"
      [] email = "a@other.org" -> "other.org"
      [] OTHER -> None

\* lines 229-260
_email_allowed(email) ==
    IF email = None \/ _email_domain(email) = None THEN FALSE
    ELSE IF email = SUPER_ADMIN_EMAIL THEN TRUE
    ELSE IF _email_domain(email) \in VerifiedDomains THEN TRUE
    ELSE _email_domain(email) \in allowed_domains

\* mutant: the value is read and left in the session
session_pop_keeping(s, key) == s

\* session.pop(key, None): the session without the key
session_pop(s, key) == [k \in (DOMAIN s) \ {key} |-> s[k]]

\* what the identity provider and the database answer during a callback:
\* authorize_access_token returns or raises, parse_id_token raises, returns
\* nothing or the claims, _upsert_user returns or raises
IdpAnswer(token_ok, userinfo, email, upsert_ok) ==
    [token_ok |-> token_ok, userinfo |-> userinfo, email |-> email,
     upsert_ok |-> upsert_ok]

IdpAnswers ==
    {IdpAnswer(FALSE, "none", None, TRUE), IdpAnswer(TRUE, "raise", None, TRUE),
     IdpAnswer(TRUE, "none", None, TRUE)}
        \cup {IdpAnswer(TRUE, "ok", e, u) : e \in Emails, u \in BOOLEAN}

\* one request of the flow and how it ended
AuthEvent(op, provider, state, expected, nonce, email, outcome) ==
    [op |-> op, provider |-> provider, state |-> state, expected |-> expected,
     nonce |-> nonce, email |-> email, outcome |-> outcome]

AuthInit ==
    /\ PipelineInit /\ DiffIdle /\ FilterIdle /\ AdminIdle /\ RegistryIdle
    /\ ExtractIdle /\ ProviderToolIdle /\ ApplyIdle
    /\ session = EmptyDict
    /\ auth_log = <<>>

auth_frame ==
    <<agent, _tools, config, audit_log, frame, results, history, threads,
      diff_vars, filter_vars, admin_vars, registry_ops, extract_vars,
      provider_tool_vars, apply_vars>>

\* lines 52-58 and 93-106: a new state and nonce are stored, then the redirect
login(provider) ==
    /\ Len(auth_log) < MaxAuthOps
    /\ \E state_token \in StateTokens, nonce \in NonceTokens :
          /\ session' = Put(Put(session, "oauth_state", state_token),
                            "oauth_nonce", nonce)
          /\ auth_log' = Append(auth_log,
                 AuthEvent("login", provider, state_token, None, None, None,
                           "redirect_idp"))
    /\ UNCHANGED auth_frame

login_google == login("google")
login_microsoft == login("microsoft")

\* lines 263-275: the session after _establish_session
_establish_session(s, email, provider) ==
    Put(s, "user", [email |-> email, provider |-> provider,
                    is_super_admin |-> (email = SUPER_ADMIN_EMAIL)])

\* lines 62-89 and 110-141: the callback of a provider
auth_callback(provider) ==
    /\ Len(auth_log) < MaxAuthOps
    /\ \E received_state \in ReceivedStates, answer \in IdpAnswers :
          LET expected == Get(session, "oauth_state")
              s1 == session_pop(session, "oauth_state")
              nonce == Get(s1, "oauth_nonce")
              s2 == session_pop(s1, "oauth_nonce")
              event(email, outcome) ==
                  AuthEvent("callback", provider, received_state, expected,
                            Get(session, "oauth_nonce"), email, outcome)
          IN  IF expected = None \/ expected # received_state
              THEN /\ session' = s1
                   /\ auth_log' = Append(auth_log, event(None, "invalid_state"))
              ELSE IF ~answer.token_ok
              THEN /\ session' = s1
                   /\ auth_log' = Append(auth_log, event(None, "fault"))
              ELSE IF nonce = None
              THEN /\ session' = s2
                   /\ auth_log' = Append(auth_log,
                                         event(None, "invalid_session"))
              ELSE IF answer.userinfo = "raise"
              THEN /\ session' = s2
                   /\ auth_log' = Append(auth_log, event(None, "fault"))
              ELSE IF answer.userinfo = "none"
              THEN /\ session' = s2
                   /\ auth_log' = Append(auth_log, event(None, "login_failed"))
              ELSE IF ~_email_allowed(answer.email)
              THEN /\ session' = Put(s2, "pending_email", answer.email)
                   /\ auth_log' = Append(auth_log,
                          event(answer.email, "registration_required"))
              ELSE IF ~answer.upsert_ok
              THEN /\ session' = s2
                   /\ auth_log' = Append(auth_log, event(answer.email, "fault"))
              ELSE /\ session' = _establish_session(s2, answer.email, provider)
                   /\ auth_log' = Append(auth_log,
                                         event(answer.email, "established"))
    /\ UNCHANGED auth_frame

auth_google_callback == auth_callback("google")
auth_ms_callback == auth_callback("microsoft")

\* lines 151-154: session.clear()
logout ==
    /\ Len(auth_log) < MaxAuthOps
    /\ session' = EmptyDict
    /\ auth_log' = Append(auth_log,
           AuthEvent("logout", None, None, None, None, None, "logged_out"))
    /\ UNCHANGED auth_frame

AuthNext ==
    \/ login_google
    \/ login_microsoft
    \/ auth_google_callback
    \/ auth_ms_callback
    \/ logout

AuthSpec == AuthInit /\ [][AuthNext]_vars

(***************************************************************************)
(* The tool registry on its own (app/agents/tools/__init__.py): register,  *)
(* get and execute in any order, from the empty registry of line 70.       *)
(***************************************************************************)
\* tool objects: a name and the implementation behind it
Tool(name, impl) == [name |-> name, impl |-> impl]
Tools == {Tool("image_fetch", "ImageFetchTool"),
          Tool("image_fetch", "OtherImageTool"),
          Tool("search", "SearchTool")}
ToolNames == {"image_fetch", "search", "missing"}

\* one registry operation and what came back
RegistryOp(op, name, tool, raised, tool_result, result) ==
    [op |-> op, name |-> name, tool |-> tool, raised |-> raised,
     tool_result |-> tool_result, result |-> result]

RegistryInit ==
    /\ _tools = EmptyDict
    /\ _logs = <<>> /\ _provider = None /\ _model = None
    /\ config \in Configs
    /\ audit_log = <<>>
    /\ frame = [r \in Runs |-> NewFrame]
    /\ results = [r \in Runs |-> Nothing]
    /\ appended = [r \in Runs |-> <<>>]
    /\ calls = [r \in Runs |-> <<>>]
    /\ tool_calls = [r \in Runs |-> <<>>]
    /\ running = 0 /\ preemptions = 0
    /\ DiffIdle /\ FilterIdle /\ AdminIdle /\ RegistryIdle /\ RouteIdle /\ ExtractIdle /\ ProviderToolIdle

registry_frame ==
    <<agent, config, audit_log, frame, results, history, threads, diff_vars,
      filter_vars, admin_vars, extract_vars, provider_tool_vars, route_vars>>

\* lines 50-52: self._tools[tool.name] = tool
ToolRegistry_register ==
    /\ Len(registry_ops) < MaxRegistryOps
    /\ \E tool \in Tools :
          /\ _tools' = Put(_tools, tool.name, tool.impl)
          /\ registry_ops' = Append(registry_ops,
                 RegistryOp("register", tool.name, tool.impl, FALSE, Nothing,
                            Nothing))
    /\ UNCHANGED registry_frame

\* lines 54-56: self._tools.get(name)
ToolRegistry_get ==
    /\ Len(registry_ops) < MaxRegistryOps
    /\ \E name \in ToolNames :
          registry_ops' = Append(registry_ops,
              RegistryOp("get", name, Get(_tools, name), FALSE, Nothing,
                         Nothing))
    /\ UNCHANGED <<_tools, registry_frame>>

\* lines 58-66: a ToolResult for a missing name; else whatever the tool's
\* execute does, a ToolResult or an exception
ToolRegistry_execute ==
    /\ Len(registry_ops) < MaxRegistryOps
    /\ \E name \in ToolNames :
          LET tool == Get(_tools, name)
          IN  IF tool = None
              THEN registry_ops' = Append(registry_ops,
                       RegistryOp("execute", name, None, FALSE, Nothing,
                                  Some(ToolNotFound(name))))
              ELSE \/ \E res \in ImageToolResults(tool) :
                         registry_ops' = Append(registry_ops,
                             RegistryOp("execute", name, tool, FALSE,
                                        Some(res), Some(res)))
                   \/ registry_ops' = Append(registry_ops,
                          RegistryOp("execute", name, tool, TRUE, Nothing,
                                     Nothing))
    /\ UNCHANGED <<_tools, registry_frame>>

RegistryNext ==
    \/ ToolRegistry_register
    \/ ToolRegistry_get
    \/ ToolRegistry_execute

RegistrySpec == RegistryInit /\ [][RegistryNext]_vars

(***************************************************************************)
(* _extract_json_from_response on its own: every short completion text.    *)
(***************************************************************************)
ResponseTokens == {LB, RB, FENCE, JSONTAG, WS, PROSE, LIST, KV("name", "A")}
ResponseTexts == UNION {[1..n -> ResponseTokens] : n \in 0..MaxTokens}

ExtractInit ==
    /\ PipelineInit /\ DiffIdle /\ FilterIdle /\ AdminIdle /\ RegistryIdle /\ RouteIdle
    /\ ProviderToolIdle
    /\ extract_content \in ResponseTexts
    /\ extract_out = Nothing

extract_json_call ==
    /\ extract_out.is_none
    /\ extract_out' = Some(_extract_json_from_response(extract_content))
    /\ UNCHANGED <<agent, _tools, config, audit_log, frame, results, history,
                   threads, diff_vars, filter_vars, admin_vars, registry_ops,
                   extract_content, provider_tool_vars, route_vars>>

ExtractNext == extract_json_call

ExtractSpec == ExtractInit /\ [][ExtractNext]_vars

(***************************************************************************)
(* complete_structured of the two backends (providers/anthropic.py,        *)
(* providers/openai.py) on the completion text the backend answered.       *)
(***************************************************************************)
\* str.split('\n')
RECURSIVE SplitLines(_)
SplitLines(s) ==
    IF First(s, NL) = 0 THEN <<s>>
    ELSE <<SubSeq(s, 1, First(s, NL) - 1)>>
             \o SplitLines(SubSeq(s, First(s, NL) + 1, Len(s)))

\* '\n'.join(lines)
RECURSIVE JoinLines(_)
JoinLines(lines) ==
    IF lines = <<>> THEN <<>>
    ELSE IF Len(lines) = 1 THEN lines[1]
    ELSE lines[1] \o <<NL>> \o JoinLines(Tail(lines))

\* anthropic.py lines 125-129: the first line of a text that starts with a
\* fence is dropped, and the last line if it is a fence
StripFenceLines(text) ==
    LET content == StripTok(text)
        lines == SplitLines(content)
        n == Len(lines)
    IN  IF content # <<>> /\ Head(content) = FENCE
        THEN JoinLines(IF StripTok(lines[n]) = <<FENCE>>
                       THEN SubSeq(lines, 2, n - 1) ELSE SubSeq(lines, 2, n))
        ELSE content

\* the whole of a text, as a value of _raw_content
WholeText(text) == [whole |-> text, chars |-> CharLen(text)]

\* anthropic.py lines 131-138, openai.py lines 129-136: the parse, or the
\* sentinel with the content as it is
complete_structured(provider, text) ==
    LET content == IF provider = "anthropic" THEN StripFenceLines(text)
                                             ELSE text
    IN  IF JsonValid(content) THEN JsonLoads(content)
        ELSE [k \in {"_parse_error", "_raw_content"} |->
                 IF k = "_parse_error" THEN "JSONDecodeError"
                                       ELSE WholeText(content)]

Backends == {"anthropic", "openai"}
StructuredTokens == {LB, RB, FENCE, NL, PROSE}
StructuredTexts ==
    UNION {[1..n -> StructuredTokens] : n \in 0..MaxStructuredTokens}

\* what a call of complete_structured comes back with
StructuredReturn(raised, value) == [raised |-> raised, value |-> value]

StructuredInit ==
    /\ PipelineInit /\ DiffIdle /\ FilterIdle /\ AdminIdle /\ RegistryIdle /\ RouteIdle
    /\ ExtractIdle /\ ImageIdle
    /\ structured_provider \in Backends
    /\ structured_content \in StructuredTexts
    /\ structured_out = Nothing

structured_frame ==
    <<agent, _tools, config, audit_log, frame, results, history, threads,
      diff_vars, filter_vars, admin_vars, registry_ops, extract_vars,
      structured_provider, structured_content, image_vars, route_vars>>

\* the backend answered with the text
complete_structured_return ==
    /\ structured_out.is_none
    /\ structured_out' = Some(StructuredReturn(FALSE,
           complete_structured(structured_provider, structured_content)))
    /\ UNCHANGED structured_frame

\* _make_request raised (raise_for_status, a timeout)
complete_structured_fault ==
    /\ structured_out.is_none
    /\ structured_out' = Some(StructuredReturn(TRUE, EmptyDict))
    /\ UNCHANGED structured_frame

StructuredNext ==
    \/ complete_structured_return
    \/ complete_structured_fault

StructuredSpec == StructuredInit /\ [][StructuredNext]_vars

(***************************************************************************)
(* ImageFetchTool (app/agents/tools/image_fetch.py) against one web site.  *)
(* The site is what each request of the tool is answered with.             *)
(***************************************************************************)
LOGO_PATHS ==
    <<"/favicon.ico", "/favicon.png", "/logo.png", "/logo.svg",
      "/images/logo.png", "/assets/logo.png", "/img/logo.png">>

MIN_HEADER_WIDTH == 400

\* 'len(img_data) > 1000' of line 213
MIN_FAVICON_BYTES == 1000

\* img.thumbnail((256, 256)) of line 127
LOGO_BOX == 256

\* confidence of a fetch from the website, and the factor for a narrow
\* header, in thousandths (0.85 and 0.7)
WEBSITE_CONFIDENCE == 850
NARROW_HEADER_FACTOR == 700

\* what a GET of an image URL is answered with: a network error, a response
\* that is not a usable image, or image bytes; Absent: the page has no such
\* element, no request is made
Answer(kind, size, decodable, width) ==
    [kind |-> kind, size |-> size, decodable |-> decodable, width |-> width]

Absent == Answer("absent", 0, FALSE, 0)
NetworkError == Answer("raise", 0, FALSE, 0)
NotFound == Answer("none", 0, FALSE, 0)
TinyIcon == Answer("image", 500, TRUE, 16)
GoodImage == Answer("image", 5000, TRUE, 800)
NarrowImage == Answer("image", 5000, TRUE, 300)
BadImage == Answer("image", 5000, FALSE, 0)

\* lines 265-275: the bytes, or None after an error or an unusable response
NoImage == Answer("none", 0, FALSE, 0)
_download_image(answer) == IF answer.kind = "image" THEN answer ELSE NoImage

\* the source identifier of a result
Source(via, path) == [via |-> via, path |-> path]
NoSource == Source("", "")

\* one attempt of a chain: where the image would come from, what the site
\* answers, and the byte size the image has to exceed
Attempt(source, answer, min_size) ==
    [source |-> source, answer |-> answer, min_size |-> min_size]

\* the first attempt whose download gives bytes above the minimum, and the
\* attempts made up to it
RECURSIVE FirstImage(_, _)
FirstImage(chain, made) ==
    IF chain = <<>>
    THEN [image |-> NoImage, source |-> NoSource, attempts |-> made]
    ELSE LET img_data == _download_image(Head(chain).answer)
         IN  IF img_data.kind = "image" /\ img_data.size > Head(chain).min_size
             THEN [image |-> img_data, source |-> Head(chain).source,
                   attempts |-> Append(made, Head(chain).source)]
             ELSE FirstImage(Tail(chain), Append(made, Head(chain).source))

\* the elements found in the page
Found(chain) == SelectSeq(chain, LAMBDA a : a.answer.kind # "absent")

\* lines 197-222: the conventional paths, no size test
CommonPaths(site) ==
    [i \in 1..Len(LOGO_PATHS) |->
        Attempt(Source("common_path", LOGO_PATHS[i]),
                site.paths[LOGO_PATHS[i]], 0)]

\* mutant: the inline image is tried before the meta tag
_fetch_logo_from_website_img_first(site) ==
    IF site.homepage = "raise"
    THEN [image |-> NoImage, source |-> NoSource, attempts |-> <<>>]
    ELSE FirstImage(
             (IF site.homepage = "ok"
              THEN Found(<<Attempt(Source("html_img", ""), site.img, 0),
                           Attempt(Source("og:image", ""), site.og, 0),
                           Attempt(Source("favicon_link", ""), site.icon,
                                   MIN_FAVICON_BYTES)>>)
              ELSE <<>>) \o CommonPaths(site),
             <<>>)

\* lines 169-227: a network error of the homepage request ends the chain
\* (line 224); a homepage that is not 200 leaves the conventional paths
_fetch_logo_from_website(site) ==
    IF site.homepage = "raise"
    THEN [image |-> NoImage, source |-> NoSource, attempts |-> <<>>]
    ELSE FirstImage(
             (IF site.homepage = "ok"
              THEN Found(<<Attempt(Source("og:image", ""), site.og, 0),
                           Attempt(Source("html_img", ""), site.img, 0),
                           Attempt(Source("favicon_link", ""), site.icon,
                                   MIN_FAVICON_BYTES)>>)
              ELSE <<>>) \o CommonPaths(site),
             <<>>)

\* lines 229-263
_fetch_header_from_website(site) ==
    IF site.homepage = "ok"
    THEN FirstImage(Found(<<Attempt(Source("og:image", ""), site.og, 0),
                            Attempt(Source("header_img", ""), site.img, 0)>>),
                    <<>>)
    ELSE [image |-> NoImage, source |-> NoSource, attempts |-> <<>>]

\* what a call of the tool comes back with: an exception, or a ToolResult
\* (attempts: the requests its logs report, in order)
ImageToolResult(raised, success, data, confidence, error, attempts) ==
    [raised |-> raised, success |-> success, data |-> data,
     confidence |-> confidence, error |-> error, attempts |-> attempts]

\* the width of the saved image (lines 123-130)
SavedWidth(image_type, img) ==
    IF image_type = "logo" /\ img.width > LOGO_BOX THEN LOGO_BOX
                                                    ELSE img.width

\* mutant: a narrow logo is discounted as well
Confidence_any_narrow(image_type, img) ==
    IF img.width < MIN_HEADER_WIDTH
    THEN (WEBSITE_CONFIDENCE * NARROW_HEADER_FACTOR) \div 1000
    ELSE WEBSITE_CONFIDENCE

\* lines 99 and 128-130
Confidence(image_type, img) ==
    IF image_type # "logo" /\ img.width < MIN_HEADER_WIDTH
    THEN (WEBSITE_CONFIDENCE * NARROW_HEADER_FACTOR) \div 1000
    ELSE WEBSITE_CONFIDENCE

\* lines 47-157
ImageFetchTool_execute(params, site) ==
    LET image_type == params.image_type
        fetched == IF ~Truthy(params.website_url)
                   THEN [image |-> NoImage, source |-> NoSource,
                         attempts |-> <<>>]
                   ELSE IF image_type = "logo"
                   THEN _fetch_logo_from_website(site)
                   ELSE _fetch_header_from_website(site)
        img == fetched.image
    IN  IF ~site.makedirs
        THEN ImageToolResult(TRUE, FALSE, EmptyDict, 0, ToolError, <<>>)
        ELSE IF img.kind # "image"
        THEN ImageToolResult(FALSE, FALSE,
                 [k \in {"reason"} |-> "Image not found"], 0, NoText,
                 fetched.attempts)
        ELSE IF ~img.decodable
        THEN ImageToolResult(FALSE, FALSE,
                 [k \in {"error"} |-> "cannot identify image file"], 0,
                 Text("cannot identify image file"), fetched.attempts)
        ELSE ImageToolResult(FALSE, TRUE,
                 [k \in {"filepath", "filename", "source", "dimensions"} |->
                     CASE k = "filepath" -> Source("file", image_type)
                       [] k = "filename" -> Source("name", image_type)
                       [] k = "source" -> fetched.source
                       [] OTHER -> Source("width",
                                          SavedWidth(image_type, img))],
                 Confidence(image_type, img), NoText, fetched.attempts)

\* the sites and the params of the calls
Sites ==
    [homepage : {"ok", "status", "raise"},
     og : {Absent, NetworkError, GoodImage, BadImage},
     img : {Absent, NotFound, GoodImage, NarrowImage},
     icon : {Absent, NetworkError, TinyIcon, GoodImage},
     paths : {[p \in {LOGO_PATHS[i] : i \in 1..Len(LOGO_PATHS)} |->
                  CASE p = "/favicon.ico" -> a
                    [] p = "/logo.png" -> b
                    [] OTHER -> NotFound] :
              a \in {NotFound, NetworkError, TinyIcon, GoodImage},
              b \in {NotFound, GoodImage}},
     makedirs : BOOLEAN]

ImageParams ==
    [website_url : {None, "", "w"}, image_type : {"logo", "header"}]

ImageInit ==
    /\ PipelineInit /\ DiffIdle /\ FilterIdle /\ AdminIdle /\ RegistryIdle /\ RouteIdle
    /\ ExtractIdle /\ StructuredIdle
    /\ image_params \in ImageParams
    /\ image_site \in Sites
    /\ image_out = Nothing

ImageFetchTool_execute_call ==
    /\ image_out.is_none
    /\ image_out' = Some(ImageFetchTool_execute(image_params, image_site))
    /\ UNCHANGED <<agent, _tools, config, audit_log, frame, results, history,
                   threads, diff_vars, filter_vars, admin_vars, registry_ops,
                   extract_vars, structured_vars, image_params, image_site,
                   route_vars>>

ImageNext == ImageFetchTool_execute_call

ImageSpec == ImageInit /\ [][ImageNext]_vars

(***************************************************************************)
(* Properties.                                                             *)
(***************************************************************************)
Returned(r) == ~results[r].is_none
Res(r) == results[r].value

Blank(r) == agency_name(frame[r].input_data) = <<>>

OfType(log, event_type) == SelectSeq(log, LAMBDA e : e.event_type = event_type)

AuditCount(r) == Cardinality({i \in 1..Len(audit_log) : audit_log[i].run = r})

Succeeded(r) == Returned(r) /\ Res(r).success
Failed(r) == Returned(r) /\ ~Res(r).success

\* the run met an exception (the handler of line 161 ran)
Faulted(r) == frame[r].exc # NoText

\* C1: when two runs of execute on the one agency_agent interleave, the logs
\* of each returned AgentResult are exactly the entries its own run appended,
\* in order, with no entry of the other run.
C1_LogsOwnRunOnly ==
    \A r \in Runs : Returned(r) => Res(r).logs = appended[r]

\* C2: a call whose name is missing, empty or blank returns success=false
\* with error 'Agency name is required', an empty draft and an empty log, and
\* makes no provider call, no tool call and no audit write.
C2_BlankNameRejected ==
    \A r \in Runs :
        (Returned(r) /\ Blank(r)) =>
            /\ ~Res(r).success
            /\ Res(r).error = Text("Agency name is required")
            /\ Res(r).draft = EmptyDict
            /\ Res(r).logs = <<>>
            /\ calls[r] = <<>>
            /\ tool_calls[r] = <<>>
            /\ AuditCount(r) = 0

\* C3: when the audit write fails in a run whose earlier stages all
\* succeeded, execute still returns success=true with the computed draft and
\* error=null.
C3_AuditFailureSwallowed ==
    \A r \in Runs :
        (Returned(r) /\ frame[r].exc = AuditError) =>
            /\ Res(r).success
            /\ Res(r).draft = frame[r].draft
            /\ Res(r).error = NoText

\* C4 as claimed: every run appends exactly one audit record, whether it
\* ends Succeeded or Failed.
C4_OneAuditRecordPerRun ==
    \A r \in Runs : Returned(r) => AuditCount(r) = 1

\* C4 as amended: a run that returns success=true has appended exactly one
\* audit record, a run that ends Failed has appended none, and no run ever
\* appends more than one.
C4_OneAuditRecordPerSuccess ==
    \A r \in Runs :
        /\ AuditCount(r) <= 1
        /\ Succeeded(r) => AuditCount(r) = 1
        /\ Failed(r) => AuditCount(r) = 0
        /\ ~Returned(r) => AuditCount(r) = 0

\* C4 witness: one run Succeeded with its record, the other Failed with none
C4_Witness ==
    \E r, q \in Runs :
        /\ Succeeded(r) /\ AuditCount(r) = 1
        /\ Failed(q) /\ ~Blank(q) /\ AuditCount(q) = 0

\* a tool call of the run failed: not registered, success=false, or raised
ToolFailed(r, image_type) ==
    \E i \in 1..Len(tool_calls[r]) :
        tool_calls[r][i].image_type = image_type /\ ~tool_calls[r][i].success

MarkerKeys(image_type) ==
    IF image_type = "logo" THEN {"_logo_fetched", "_logo_path"}
                           ELSE {"_header_fetched", "_header_path"}

\* C5: in a run whose draft has a website, a failure of the image tool
\* (success=false, not registered, or a fault) leaves the run Succeeded: the
\* result has success=true, the extracted fields, and no marker field of the
\* failed fetch.  (A run whose audit write failed afterwards is left out.)
C5_ToolFailureNotFatal ==
    \A r \in Runs : \A image_type \in {"logo", "header"} :
        (Returned(r) /\ ToolFailed(r, image_type) /\ frame[r].exc # AuditError) =>
            /\ Res(r).success
            /\ \A k \in DOMAIN frame[r].draft :
                  k \in AGENCY_SCHEMA =>
                      k \in DOMAIN Res(r).draft /\ Res(r).draft[k] = frame[r].draft[k]
            /\ MarkerKeys(image_type) \cap DOMAIN Res(r).draft = {}

\* the extraction of the run ended in the parse-error sentinel
ParseError(r) == "_parse_error" \in DOMAIN frame[r].draft

\* C6: a result with success=false has an empty draft, empty skipped_fields
\* and a non-null error; a result with success=true has error=null; after a
\* parse error the draft is empty and the error starts with 'Failed to parse
\* response', the sentinel is never the draft.
C6_FailedResultsAreEmpty ==
    \A r \in Runs :
        Returned(r) =>
            /\ ~Res(r).success =>
                  /\ Res(r).draft = EmptyDict
                  /\ Res(r).skipped_fields = EmptyDict
                  /\ Res(r).error # NoText
            /\ Res(r).success => Res(r).error = NoText
            /\ ParseError(r) =>
                  /\ ~Res(r).success
                  /\ Res(r).draft = EmptyDict
                  /\ StartsWith(Res(r).error, "Failed to parse response: ")

\* C6 witness: a run returned after a parse error
C6_Witness == \E r \in Runs : Returned(r) /\ ParseError(r)

\* C7: a fault at any stage sends the run to Failed: the result has
\* success=false, its error is the fault message, and its logs hold an
\* 'error' entry with that message.
C7_FaultEndsRun ==
    \A r \in Runs :
        (Returned(r) /\ Faulted(r)) =>
            /\ ~Res(r).success
            /\ Res(r).error = frame[r].exc
            /\ \E i \in 1..Len(Res(r).logs) :
                  /\ Res(r).logs[i].event_type = "error"
                  /\ Res(r).logs[i].msg = frame[r].exc

\* C8: a run that returns success=true has exactly two llm_call entries in
\* its logs: the research call with use_search=true, then the extraction
\* call with use_search=false.
C8_TwoLlmCalls ==
    \A r \in Runs :
        Succeeded(r) =>
            LET llm == OfType(Res(r).logs, "llm_call")
            IN  /\ Len(llm) = 2
                /\ llm[1].tag = "use_search=True"
                /\ llm[2].tag = "use_search=False"

\* the provider calls of the run that raised: one error entry of stage
\* llm_call each
LlmErrors(r) == SelectSeq(appended[r],
                    LAMBDA e : e.event_type = "error" /\ e.tag = "llm_call")

\* the provider calls of the run still waiting for the answer
Pending(r) == IF frame[r].pc = "await" THEN 1 ELSE 0

\* the tool invocations of the run that came back with a ToolResult
ToolReturns(r) == SelectSeq(tool_calls[r], LAMBDA c : ~c.raised)

\* C9 as claimed: the llm_call entries a run appended are as many as the
\* provider calls it issued and have had answered or fail, and its tool_call
\* entries as many as its tool invocations, also when calls fault.
C9_OneEntryPerCall ==
    \A r \in Runs :
        /\ Len(OfType(appended[r], "llm_call")) = Len(calls[r]) - Pending(r)
        /\ Len(OfType(appended[r], "tool_call")) = Len(tool_calls[r])

\* C9 as amended: a provider call that returns appends exactly one llm_call
\* entry and one that faults appends exactly one error entry of stage
\* llm_call and no llm_call entry; a tool invocation that returns a
\* ToolResult appends exactly one tool_call entry and one that faults appends
\* none.  The entries follow the calls in order.
C9_OneEntryPerReturnedCall ==
    \A r \in Runs :
        /\ Len(OfType(appended[r], "llm_call")) + Len(LlmErrors(r))
              = Len(calls[r]) - Pending(r)
        /\ Len(LlmErrors(r)) <= 1
        /\ \A i \in 1..Len(OfType(appended[r], "llm_call")) :
              OfType(appended[r], "llm_call")[i].tag
                  = llm_call_tag(calls[r][i].use_search)
        /\ Len(OfType(appended[r], "tool_call")) = Len(ToolReturns(r))
        /\ \A i \in 1..Len(ToolReturns(r)) :
              OfType(appended[r], "tool_call")[i].tag = ToolReturns(r)[i].image_type

\* C9 witness: a run with two answered provider calls and a tool invocation
\* that faulted after one that returned
C9_Witness ==
    \E r \in Runs :
        /\ Returned(r)
        /\ Len(OfType(appended[r], "llm_call")) = 2
        /\ Len(tool_calls[r]) = 2
        /\ Len(ToolReturns(r)) = 1

\* the universe of field names of the diff check
DiffFields == (DOMAIN diff_existing) \cup (DOMAIN diff_proposed) \cup DiffKeys

\* C10: a field is a key of the diff if and only if the proposed value is
\* non-null and differs from the existing value (an absent key counting as
\* null), and its entry is {old: existing value, new: proposed value}.
C10_DiffIff ==
    ~diff_out.is_none =>
        \A field \in DiffFields :
            /\ field \in DOMAIN diff_out.value <=>
                  /\ Get(diff_proposed, field) # None
                  /\ Get(diff_proposed, field) # Get(diff_existing, field)
            /\ field \in DOMAIN diff_out.value =>
                  diff_out.value[field] = [old |-> Get(diff_existing, field),
                                           new |-> Get(diff_proposed, field)]

\* C10 witness: a diff with a changed field, next to a field left out
\* because the proposed value is null while the existing one is not
C10_Witness ==
    /\ ~diff_out.is_none
    /\ DOMAIN diff_out.value # {}
    /\ \E field \in DOMAIN diff_proposed :
          /\ diff_proposed[field] = None
          /\ Get(diff_existing, field) # None
          /\ field \notin DOMAIN diff_out.value

\* the call of execute by run r was given an existing record
IsUpdate(r) == ~frame[r].existing_record.is_none

\* C11 as claimed: in every returned AgentResult, whatever stage the run
\* ended in, diff is populated if and only if an existing record was
\* supplied to the call.
C11_DiffIffExistingRecord ==
    \A r \in Runs : Returned(r) => (~Res(r).diff.is_none <=> IsUpdate(r))

\* C11 as amended: in a result with success=true, diff is populated if and
\* only if an existing record was supplied; in a result with success=false
\* diff is null, also when an existing record was supplied.
C11_DiffIffExistingRecordOnSuccess ==
    \A r \in Runs :
        /\ Succeeded(r) => (~Res(r).diff.is_none <=> IsUpdate(r))
        /\ Succeeded(r) => (Res(r).is_update <=> IsUpdate(r))
        /\ Failed(r) => Res(r).diff.is_none

\* C11 witness: an update run Succeeded with a diff after its image fetch,
\* and an update run Failed with none
C11_Witness ==
    \E r, q \in Runs :
        /\ Succeeded(r) /\ IsUpdate(r) /\ ~Res(r).diff.is_none
        /\ tool_calls[r] # <<>>
        /\ Failed(q) /\ IsUpdate(q) /\ ~Blank(q) /\ Res(q).diff.is_none

\* C12: the diff of an update run never contains a field whose proposed
\* value is the empty string or absent, also when the existing value of the
\* field is non-empty.
C12_NoEmptyProposedInDiff ==
    \A r \in Runs :
        (Returned(r) /\ ~Res(r).diff.is_none) =>
            \A field \in DOMAIN Res(r).diff.value :
                /\ Res(r).diff.value[field].new # ""
                /\ Res(r).diff.value[field].new # None

\* C13: every key of the diff of an update run is a field name of the entity
\* schema; the marker keys with a leading underscore that the image-fetch
\* stage sets never appear in it.
C13_DiffKeysInSchema ==
    \A r \in Runs :
        (Returned(r) /\ ~Res(r).diff.is_none) =>
            DOMAIN Res(r).diff.value \subseteq AGENCY_SCHEMA

\* the confidence figure of a field: its entry, full confidence without one
ConfidenceOf(key) ==
    IF key \in DOMAIN filter_confidences THEN filter_confidences[key]
                                          ELSE FULL_CONFIDENCE

\* C14: _filter_by_confidence partitions the input fields: a field with
\* confidence >= threshold is in kept with its value and not in skipped; a
\* field with confidence < threshold is in skipped with its value, its
\* confidence and the reason '(conf < threshold)', and not in kept; kept and
\* skipped are disjoint and together cover the input fields.
C14_ConfidencePartition ==
    ~filter_out.is_none =>
        LET kept == filter_out.value.kept
            skipped == filter_out.value.skipped
        IN  /\ \A key \in DOMAIN filter_data :
                   /\ ConfidenceOf(key) >= AGENT_CONFIDENCE_THRESHOLD =>
                          /\ key \in DOMAIN kept
                          /\ kept[key] = filter_data[key]
                          /\ key \notin DOMAIN skipped
                   /\ ConfidenceOf(key) < AGENT_CONFIDENCE_THRESHOLD =>
                          /\ key \in DOMAIN skipped
                          /\ skipped[key].value = filter_data[key]
                          /\ skipped[key].confidence = ConfidenceOf(key)
                          /\ skipped[key].reason =
                                 SkipReason(ConfidenceOf(key),
                                            AGENT_CONFIDENCE_THRESHOLD)
                          /\ key \notin DOMAIN kept
            /\ (DOMAIN kept) \cap (DOMAIN skipped) = {}
            /\ (DOMAIN kept) \cup (DOMAIN skipped) = DOMAIN filter_data

\* C14 witness: one field kept at exactly the threshold, another skipped
\* just below it
C14_Witness ==
    /\ ~filter_out.is_none
    /\ \E key \in DOMAIN filter_out.value.kept :
          ConfidenceOf(key) = AGENT_CONFIDENCE_THRESHOLD
    /\ \E key \in DOMAIN filter_out.value.skipped :
          ConfidenceOf(key) = AGENT_CONFIDENCE_THRESHOLD - 1

\* C15: a field with no entry in the confidence mapping is kept, whatever
\* the threshold is configured to.
C15_NoFigureAlwaysKept ==
    ~filter_out.is_none =>
        \A key \in (DOMAIN filter_data) \ (DOMAIN filter_confidences) :
            key \in DOMAIN filter_out.value.kept

\* the commit request was answered with success
Committed == ~commit_out.is_none /\ commit_out.value.status = 200

\* C16: execute never commits: no step of a run, with or without an existing
\* record and whatever its outcome, changes a persisted record; only the
\* commit operation does.
C16_ExecuteNeverCommits ==
    [][/\ frame' # frame => agencies' = agencies
       /\ agencies' # agencies => (commit_out.is_none /\ ~commit_out'.is_none)
      ]_vars

\* C16 witness: an update run returned a draft that differs from the record,
\* and the record is as it was
C16_Witness ==
    /\ Succeeded(1) /\ IsUpdate(1)
    /\ commit_out.is_none
    /\ "website" \in DOMAIN Res(1).diff.value
    /\ agencies = <<AgencyRow("A", "w", "c")>>
    /\ agencies[1] = frame[1].existing_record.value

\* C17: when a draft is applied to a persisted record, its keys with a
\* leading underscore are left out: the row has only entity schema
\* attributes, each schema field of the draft is set, the others are kept.
C17_MarkersNotApplied ==
    Committed =>
        LET row == agencies[commit_out.value.agency_id]
            draft == Res(1).draft
            before == IF IsUpdate(1) THEN frame[1].existing_record.value
                                     ELSE NewAgency
        IN  /\ DOMAIN row = AGENCY_SCHEMA
            /\ \A f \in AGENCY_SCHEMA :
                   row[f] = IF f \in DOMAIN draft THEN ColumnValue(draft[f])
                                                  ELSE before[f]

\* C17 witness: a draft with image markers was committed
C17_Witness ==
    /\ Committed
    /\ {"_logo_fetched", "_logo_path", "_header_fetched", "_header_path"}
           \subseteq DOMAIN Res(1).draft

\* the implementations registered under a name before operation i
RegisteredBefore(i, name) ==
    {registry_ops[j].tool : j \in {k \in 1..(i - 1) :
                                      /\ registry_ops[k].op = "register"
                                      /\ registry_ops[k].name = name}}

\* C18: ToolRegistry.execute with a name that is not registered returns a
\* ToolResult with success=false and error 'Tool not found: <name>', does not
\* raise and runs no tool; with a registered name it runs a tool registered
\* under that name and returns what that tool's execute returned.
C18_ExecuteUnknownTool ==
    \A i \in 1..Len(registry_ops) :
        LET o == registry_ops[i]
        IN  o.op = "execute" =>
                IF RegisteredBefore(i, o.name) = {}
                THEN /\ ~o.raised
                     /\ o.tool = None
                     /\ ~o.result.is_none
                     /\ ~o.result.value.success
                     /\ o.result.value.error =
                            Prefixed("Tool not found: ", Text(o.name))
                ELSE /\ o.tool \in RegisteredBefore(i, o.name)
                     /\ ~o.raised => (~o.result.is_none
                                        /\ o.result = o.tool_result)

\* C18 witness: execute of a missing name, then register, then execute of a
\* registered name
C18_Witness ==
    \E i, j \in 1..Len(registry_ops) :
        /\ i < j
        /\ registry_ops[i].op = "execute" /\ registry_ops[i].tool = None
        /\ registry_ops[j].op = "execute" /\ registry_ops[j].tool # None
        /\ ~registry_ops[j].raised

\* C19: the registry is write-once per name: under any sequence of register,
\* get and execute, a name once bound to a tool stays bound to that tool; a
\* later register under the name does not replace the binding.
C19_WriteOncePerName ==
    [][\A name \in DOMAIN _tools :
          name \in DOMAIN _tools' /\ _tools'[name] = _tools[name]]_vars

\* the stages of the extraction, as the claim orders them
Trimmed == StripTok(extract_content)
FencedBlock == FenceMatch(Trimmed)
BraceSpan ==
    IF First(Trimmed, LB) # 0 /\ Last(Trimmed, RB) > First(Trimmed, LB)
    THEN SubSeq(Trimmed, First(Trimmed, LB), Last(Trimmed, RB))
    ELSE <<>>

\* C20: _extract_json_from_response returns the parse of the trimmed
\* response if that is valid JSON; else the parse of the inner content of
\* the first fenced block if there is one and it parses; else the parse of
\* the text from the first '{' to the last '}'; and if all three fail a
\* sentinel holding only the parse-error marker and a raw excerpt of at most
\* 500 characters, with no entity field.
C20_ExtractionPriority ==
    ~extract_out.is_none =>
        LET out == extract_out.value
        IN  IF JsonValid(Trimmed) THEN out = JsonLoads(Trimmed)
            ELSE IF FencedBlock.matched /\ JsonValid(FencedBlock.group)
            THEN out = JsonLoads(FencedBlock.group)
            ELSE IF JsonValid(BraceSpan) THEN out = JsonLoads(BraceSpan)
            ELSE /\ DOMAIN out = {"_parse_error", "_raw_content"}
                 /\ out["_raw_content"].chars <= RAW_LIMIT
                 /\ CharLen(out["_raw_content"].whole) <= RAW_LIMIT
                 /\ (DOMAIN out) \cap AGENCY_SCHEMA = {}

\* C20 witness: a response longer than 500 characters in which all three
\* stages fail although it has a fenced block and braces
C20_Witness ==
    /\ ~extract_out.is_none
    /\ "_parse_error" \in DOMAIN extract_out.value
    /\ FencedBlock.matched
    /\ BraceSpan # <<>>
    /\ CharLen(Trimmed) > RAW_LIMIT
    /\ extract_out.value["_raw_content"].chars = RAW_LIMIT

\* C21: when complete_structured of either backend cannot parse the
\* completion text, it returns a sentinel with a parse-error marker and an
\* excerpt of the raw text whose length is bounded by a fixed constant (the
\* 500 characters of the agent's own sentinel), however long the response.
C21_StructuredExcerptBounded ==
    (~structured_out.is_none /\ ~structured_out.value.raised
        /\ "_parse_error" \in DOMAIN structured_out.value.value) =>
            /\ DOMAIN structured_out.value.value
                   = {"_parse_error", "_raw_content"}
            /\ structured_out.value.value["_raw_content"].chars <= RAW_LIMIT

\* the configuration names no known backend, or one without a credential
BadProviderConfig ==
    \/ config.provider \notin {"anthropic", "openai"}
    \/ ~config.api_key

\* C22: a provider cannot exist with an empty credential and an unknown
\* provider name never resolves: get_provider fails for both, no provider
\* object is ever stored, and a run under such a configuration ends Failed
\* with that error without issuing any provider call.
C22_NoProviderWithoutCredential ==
    /\ BadProviderConfig <=> get_provider(config).raised
    /\ BadProviderConfig =>
           /\ _provider = None
           /\ \A r \in Runs :
                  /\ calls[r] = <<>>
                  /\ (Returned(r) /\ ~Blank(r)) =>
                         /\ ~Res(r).success
                         /\ Res(r).error = get_provider(config).error

\* C22 witness: runs ended Failed under a configuration without credential
\* and under one with an unknown provider name
C22_Witness ==
    /\ BadProviderConfig
    /\ \A r \in Runs : Failed(r) /\ ~Blank(r)

\* the call of the tool returned a ToolResult
ToolReturned == ~image_out.is_none /\ ~image_out.value.raised
ToolOut == image_out.value
LogoMode == image_params.image_type = "logo"

\* what the site answers for a source identifier
SiteAnswer(source) ==
    CASE source.via = "og:image" -> image_site.og
      [] source.via \in {"html_img", "header_img"} -> image_site.img
      [] source.via = "favicon_link" -> image_site.icon
      [] source.via = "common_path" -> image_site.paths[source.path]
      [] OTHER -> NoImage

\* the sources of a mode in their fixed order
SourceOrder ==
    IF LogoMode
    THEN <<Source("og:image", ""), Source("html_img", ""),
           Source("favicon_link", "")>>
             \o [i \in 1..Len(LOGO_PATHS) |->
                    Source("common_path", LOGO_PATHS[i])]
    ELSE <<Source("og:image", ""), Source("header_img", "")>>

\* the download for a source would succeed: image bytes, for a site icon
\* above the minimum size, for a page element on a page that was served
Usable(source) ==
    /\ SiteAnswer(source).kind = "image"
    /\ source.via = "favicon_link" =>
           SiteAnswer(source).size > MIN_FAVICON_BYTES
    /\ source.via # "common_path" => image_site.homepage = "ok"

\* C23: the tool picks the first heuristic that succeeds in the fixed order
\* meta tag, matching inline image, site-icon link above the minimum size,
\* conventional path: the source of a successful result is that of the
\* earliest step whose download succeeded, and when no step succeeds the
\* result is success=false with confidence 0.
C23_FirstHeuristicWins ==
    ToolReturned =>
        /\ ToolOut.success =>
               \E i \in 1..Len(SourceOrder) :
                   /\ ToolOut.data["source"] = SourceOrder[i]
                   /\ Usable(SourceOrder[i])
                   /\ \A j \in 1..(i - 1) : ~Usable(SourceOrder[j])
        /\ (\A i \in 1..Len(SourceOrder) : ~Usable(SourceOrder[i])) =>
               ~ToolOut.success /\ ToolOut.confidence = 0

\* C23 witness: a page with a meta tag and a logo image, the meta tag won
C23_Witness ==
    /\ ToolReturned /\ LogoMode /\ ToolOut.success
    /\ ToolOut.data["source"] = Source("og:image", "")
    /\ image_site.img.kind = "image"
    /\ image_site.icon.kind = "image"

\* C24: a network error in a single attempt (the homepage fetch or an image
\* download) never raises out of the tool and counts as that attempt
\* failing: the remaining attempts are still made, in logo mode the
\* conventional paths up to the first that gives an image.
C24_NetworkErrorContinues ==
    (ToolReturned /\ LogoMode /\ Truthy(image_params.website_url)) =>
        \/ \E i \in 1..Len(ToolOut.attempts) :
               /\ _download_image(SiteAnswer(ToolOut.attempts[i])).kind = "image"
               /\ ToolOut.attempts[i].via = "favicon_link" =>
                      SiteAnswer(ToolOut.attempts[i]).size > MIN_FAVICON_BYTES
        \/ \A p \in 1..Len(LOGO_PATHS) :
               \E i \in 1..Len(ToolOut.attempts) :
                   ToolOut.attempts[i] = Source("common_path", LOGO_PATHS[p])

\* the sources that deliver a site icon
IconSources ==
    {Source("favicon_link", ""), Source("common_path", "/favicon.ico"),
     Source("common_path", "/favicon.png")}

\* C25: in logo mode a site icon under the minimum of 1000 bytes is never
\* returned as the image, also when the icon is reachable at a conventional
\* path such as /favicon.ico.
C25_NoTinyIcon ==
    (ToolReturned /\ LogoMode /\ ToolOut.success
        /\ ToolOut.data["source"] \in IconSources) =>
            SiteAnswer(ToolOut.data["source"]).size >= MIN_FAVICON_BYTES

\* C26: a ToolResult with success=false has confidence 0 and a reason or an
\* error; one with success=true has confidence 0.85, or 0.85 times 0.7
\* exactly when the class is header and the width is under 400 pixels, and
\* its data has filepath, filename, source and dimensions.
C26_ConfidenceOfResult ==
    ToolReturned =>
        /\ ~ToolOut.success =>
               /\ ToolOut.confidence = 0
               /\ "reason" \in DOMAIN ToolOut.data \/ ToolOut.error # NoText
        /\ ToolOut.success =>
               /\ DOMAIN ToolOut.data
                      = {"filepath", "filename", "source", "dimensions"}
               /\ ToolOut.confidence =
                      IF ~LogoMode /\ SiteAnswer(ToolOut.data["source"]).width
                                         < MIN_HEADER_WIDTH
                      THEN (WEBSITE_CONFIDENCE * NARROW_HEADER_FACTOR) \div 1000
                      ELSE WEBSITE_CONFIDENCE

\* C26 witness: a narrow header was saved with the discounted confidence
C26_Witness ==
    /\ ToolReturned /\ ~LogoMode /\ ToolOut.success
    /\ SiteAnswer(ToolOut.data["source"]).width < MIN_HEADER_WIDTH
    /\ ToolOut.confidence < WEBSITE_CONFIDENCE

\* the llm_call entries of the run: the provider calls that returned
LlmReturns(r) == Len(OfType(appended[r], "llm_call"))

\* C27: within one run the stages go in the order Research, Extract,
\* ImageFetch, Diff, Audit with no overlap: the extraction call is issued
\* only after the research call returned, a tool call is made only after the
\* extraction call returned and before the diff, the diff is computed before
\* the audit record, and the audit record is written after the diff of an
\* update run and only in the step that returns success=true.
C27_StageOrder ==
    [][\A r \in Runs :
          /\ Len(calls'[r]) > Len(calls[r]) =>
                 /\ frame[r].pc # "await"
                 /\ LlmReturns(r) = Len(calls[r])
                 /\ Len(calls[r]) <= 1
                 /\ calls'[r][Len(calls'[r])].use_search = (Len(calls[r]) = 0)
                 /\ tool_calls[r] = <<>>
          /\ Len(tool_calls'[r]) > Len(tool_calls[r]) =>
                 /\ Len(calls[r]) = 2 /\ LlmReturns(r) = 2
                 /\ frame[r].diff.is_none
                 /\ AuditCount(r) = 0
          /\ (frame[r].diff.is_none /\ ~frame'[r].diff.is_none) =>
                 /\ LlmReturns(r) = 2
                 /\ frame'[r].pc \notin {"fetch_logo", "fetch_header"}
                 /\ AuditCount(r) = 0
          /\ AuditCount(r)' > AuditCount(r) =>
                 /\ IsUpdate(r) => ~frame[r].diff.is_none
                 /\ LlmReturns(r) = 2
                 /\ ~Returned(r)
                 /\ Succeeded(r)'
    ]_vars

\* C27 witness: an update run went through all five stages
C27_Witness ==
    \E r \in Runs :
        /\ Succeeded(r) /\ IsUpdate(r)
        /\ Len(calls[r]) = 2 /\ Len(tool_calls[r]) = 2
        /\ ~Res(r).diff.is_none /\ AuditCount(r) = 1

\* the extraction of the run gave a draft with a website
HasWebsite(r) ==
    /\ LlmReturns(r) = 2
    /\ frame[r].draft # NotADict
    /\ ~ParseError(r)
    /\ Truthy(Get(frame[r].draft, "website"))

\* a tool call of the run for the class returned success
ToolSucceeded(r, image_type) ==
    \E i \in 1..Len(tool_calls[r]) :
        tool_calls[r][i].image_type = image_type /\ tool_calls[r][i].success

\* C28: the image-fetch stage runs if and only if the extracted draft has a
\* non-empty website; when it runs the tool is invoked exactly twice, for
\* logo and then for header, whether or not the logo fetch succeeded; the
\* draft has the marker fields of a class if and only if the tool call for
\* that class returned success.
C28_TwoImageFetches ==
    \A r \in Runs :
        Returned(r) =>
            /\ tool_calls[r] # <<>> <=> HasWebsite(r)
            /\ tool_calls[r] # <<>> =>
                   /\ Len(tool_calls[r]) = 2
                   /\ tool_calls[r][1].image_type = "logo"
                   /\ tool_calls[r][2].image_type = "header"
            /\ \A image_type \in {"logo", "header"} :
                   IF ToolSucceeded(r, image_type)
                   THEN MarkerKeys(image_type) \subseteq DOMAIN frame[r].draft
                   ELSE MarkerKeys(image_type) \cap DOMAIN frame[r].draft = {}

\* C29: for runs made one after another on the same agent, the logs of each
\* returned AgentResult are exactly the entries appended during that run, in
\* order, and a result already returned is not changed by a later run.
C29_SequentialLogsOwnRun ==
    /\ [](\A r \in Runs : Returned(r) => Res(r).logs = appended[r])
    /\ [][\A r \in Runs : Returned(r) => results'[r] = results[r]]_vars

\* C29 witness: both runs returned with their own logs, the second after the
\* first
C29_Witness ==
    /\ preemptions = 0
    /\ \A r \in Runs : Returned(r) /\ Res(r).logs # <<>>
    /\ \E r, q \in Runs : Res(r).logs # Res(q).logs

\* C30: every run of execute that began reaches Succeeded or Failed, given
\* that every provider and tool call returns or faults; a run never stays in
\* an intermediate stage and never ends without a result.
C30_EveryRunTerminates ==
    /\ [](\A r \in Runs : frame[r].pc = "returned" <=> Returned(r))
    /\ \A r \in Runs :
           (frame[r].pc # "idle") ~> (Succeeded(r) \/ Failed(r))

\* C30 witness: one run ended Succeeded, the other Failed after a fault
C30_Witness ==
    \E r, q \in Runs : Succeeded(r) /\ Failed(q) /\ Faulted(q)

\* the research call of the run returned empty text
ResearchEmpty(r) == LlmReturns(r) >= 1 /\ frame[r].research_findings = ""

\* C31: if the research call returns empty text the run ends Failed with
\* error 'Research step returned no findings': the extraction call is never
\* issued (the logs hold exactly one llm_call entry), no tool is called, no
\* diff is computed and the draft is empty.
C31_EmptyResearchEndsRun ==
    \A r \in Runs :
        (Returned(r) /\ ResearchEmpty(r)) =>
            /\ Failed(r)
            /\ Res(r).error = Text("Research step returned no findings")
            /\ Len(calls[r]) = 1
            /\ Len(OfType(Res(r).logs, "llm_call")) = 1
            /\ tool_calls[r] = <<>>
            /\ frame[r].diff.is_none /\ Res(r).diff.is_none
            /\ Res(r).draft = EmptyDict

\* C32 as claimed: in every returned AgentResult, Failed ones included,
\* is_update is true if and only if an existing record was supplied.
C32_IsUpdateIffExistingRecord ==
    \A r \in Runs : Returned(r) => (Res(r).is_update <=> IsUpdate(r))

\* C32 as amended: is_update is true if and only if an existing record was
\* supplied and the result has success=true; every Failed result has
\* is_update false, also one of a run that had computed its diff.
C32_IsUpdateOnlyOnSuccess ==
    \A r \in Runs :
        Returned(r) => (Res(r).is_update <=> (IsUpdate(r) /\ Res(r).success))

\* C32 witness: an update run Succeeded with is_update, another update run
\* Failed after its diff and returned is_update false
C32_Witness ==
    \E r, q \in Runs :
        /\ Succeeded(r) /\ IsUpdate(r) /\ Res(r).is_update
        /\ Failed(q) /\ IsUpdate(q) /\ frame[q].is_update /\ ~Res(q).is_update

\* C34: when two runs start on an agent whose provider is not initialised
\* yet, every provider call of both runs is made with the configured model;
\* no call goes out with the model still unset.
C34_CallsUseConfiguredModel ==
    \A r \in Runs : \A i \in 1..Len(calls[r]) :
        calls[r][i].model = config.model

\* C33: in every AgentResult, provider_used and model_used name the provider
\* and the model that served the provider calls of that run, for any sequence
\* of runs on the same agent, also when the configured provider or model
\* changes between two runs.
C33_ResultNamesServingProvider ==
    \A r \in Runs :
        Returned(r) =>
            \A i \in 1..Len(calls[r]) :
                /\ calls[r][i].provider = Res(r).provider_used
                /\ calls[r][i].model = Res(r).model_used

\* C35: _apply_draft_to_agency changes only the schema fields that are keys
\* of the draft: an absent field keeps its value, a present field takes the
\* draft value, and the empty string is stored as null.
C35_ApplySetsDraftFieldsOnly ==
    ~apply_out.is_none =>
        /\ DOMAIN apply_out.value = DOMAIN apply_agency
        /\ \A f \in AGENCY_SCHEMA :
               apply_out.value[f] =
                   IF f \notin DOMAIN apply_draft THEN apply_agency[f]
                   ELSE IF apply_draft[f] = "" THEN None
                   ELSE apply_draft[f]

\* C35 witness: a draft with an empty website, no ceo and an image marker was
\* applied to a row that had a website and a ceo
C35_Witness ==
    /\ ~apply_out.is_none
    /\ apply_agency = AgencyRow("A", "w", "c")
    /\ "website" \in DOMAIN apply_draft /\ apply_draft["website"] = ""
    /\ "ceo" \notin DOMAIN apply_draft
    /\ "_logo_path" \in DOMAIN apply_draft
    /\ apply_out.value["website"] = None

\* C36: a commit that reports failure leaves the persisted records as they
\* were: an empty draft or one without a name (400), an agency_id of no row
\* (404), a create whose name matches a row without regard to case (409)
\* and a fault during apply or commit (500, rolled back) create and modify
\* no record.
C36_FailedCommitChangesNothing ==
    [][(commit_out.is_none /\ ~commit_out'.is_none) =>
          /\ commit_out'.value.status \in {200, 400, 404, 409, 500}
          /\ commit_out'.value.status # 200 => agencies' = agencies
      ]_vars

\* C36 witness: the commit faulted and the row is as it was
C36_Witness ==
    /\ ~commit_out.is_none
    /\ commit_out.value.status = 500
    /\ agencies = <<AgencyRow("A", "w", "c")>>

\* the callbacks of the log that established a session
Established == {i \in 1..Len(auth_log) : auth_log[i].outcome = "established"}

\* the login step that stored the state the callback i was checked against:
\* a login before i with no login, callback or logout in between
PrecedingLogin(i) ==
    {j \in 1..(i - 1) :
        /\ auth_log[j].op = "login"
        /\ \A k \in (j + 1)..(i - 1) :
               auth_log[k].op \notin {"login", "callback", "logout"}}

\* C37: a user session is established only by a callback whose state equals
\* the state stored by the preceding login step, with a stored nonce and an
\* allowed email; every callback consumes the stored state, so a second
\* callback with the same state is rejected and establishes no session.
C37_SessionOnlyByFreshState ==
    /\ "user" \in DOMAIN session => Established # {}
    /\ \A i \in Established :
           /\ auth_log[i].op = "callback"
           /\ auth_log[i].expected # None
           /\ auth_log[i].state = auth_log[i].expected
           /\ auth_log[i].nonce # None
           /\ _email_allowed(auth_log[i].email)
           /\ \E j \in PrecedingLogin(i) : auth_log[j].state = auth_log[i].state
    /\ (auth_log # <<>> /\ auth_log[Len(auth_log)].op = "callback") =>
           "oauth_state" \notin DOMAIN session
    /\ \A i \in 2..Len(auth_log) :
           (auth_log[i].op = "callback" /\ auth_log[i - 1].op = "callback") =>
               auth_log[i].outcome = "invalid_state"

\* C37 witness: a login, its callback that established the session, and the
\* same callback again, rejected
C37_Witness ==
    /\ Len(auth_log) >= 3
    /\ auth_log[1].op = "login"
    /\ auth_log[2].outcome = "established"
    /\ auth_log[3].op = "callback"
    /\ auth_log[3].state = auth_log[2].state
    /\ auth_log[3].outcome = "invalid_state"
    /\ "user" \in DOMAIN session

=============================================================================
